---- MODULE Spec2Model ----
(***************************************************************************)
(* Hierarchical folder matcher of the auto-folder system                   *)
(* (processes/auto_folder): FolderMatcher, the in-memory vector store, the *)
(* embedding service with its cache, and the seed initialisation of        *)
(* AutoFolder.                                                             *)
(*                                                                         *)
(* Representation.                                                         *)
(*  - A string that the code builds from labels (a path, a search text, an *)
(*    embedding text) is a sequence of tokens: labels and the separators   *)
(*    "/" and ">" (the latter stands for " > ").  Labels come out of       *)
(*    TaxonomyGenerator._clean_label or of SEED_DOMAINS and hold no "/".   *)
(*  - A similarity score is an integer number of ten-thousandths           *)
(*    (Scale = 1.0); thresholds are scaled alike.                          *)
(*  - An embedding is an integer vector; the backend's vectors have norm   *)
(*    100, so that cosines are exact in ten-thousandths.                   *)
(*  - None is 0 for a folder id, <<>> for an embedding or embedding id.    *)
(*  - uuid4() is a fresh number (next_id).                                 *)
(*  - A value that the code binds to a local variable and reads several    *)
(*    times is passed on as an operator argument.                          *)
(***************************************************************************)
EXTENDS Integers, Sequences, FiniteSets, TLC

(***************************************************************************)
(* Bounds of the model                                                     *)
(***************************************************************************)
MaxFolders == 8          \* folder ids that may be handed out
MaxSeedRuns == 2         \* executions of initialize_seed_folders
MaxLoads == 1            \* AutoFolder constructions per process
MaxMatches == 2          \* calls of match in one run
MaxVectors == 3          \* entries of a vector store that is searched directly
MaxClassify == 1         \* classify calls among the item repository's operations

(***************************************************************************)
(* Program constants (ThresholdConfig, top_k, sanity limits), scaled       *)
(***************************************************************************)
Scale == 10000
domain_threshold == 8200
subdomain_threshold == 8000
leaf_threshold == 7500
leaf_confidence_threshold == 7000
max_depth == 3
min_keyword_overlap_pct == 20
TrustSimilarity == 9500
SuspiciousSimilarity == 8500
TopK == 5
MinResults == 3

None == 0
NoEmbedding == <<>>

(***************************************************************************)
(* Strings as token sequences                                              *)
(***************************************************************************)
Range(s) == {s[i] : i \in DOMAIN s}

\* f"{parent.path}/{label}"
JoinPath(parent_path, label) == parent_path \o <<"/", label>>

\* path.replace('/', ' > ')
ReplaceSlash(path) == [i \in DOMAIN path |-> IF path[i] = "/" THEN ">" ELSE path[i]]

\* path.split('/'): the segments, each a token sequence ('' is <<>>)
RECURSIVE SplitSlash(_)
SplitSlash(s) ==
    IF \A i \in DOMAIN s : s[i] # "/" THEN <<s>>
    ELSE LET k == CHOOSE i \in DOMAIN s :
                      s[i] = "/" /\ \A j \in 1..(i - 1) : s[j] # "/"
         IN  <<SubSeq(s, 1, k - 1)>> \o SplitSlash(SubSeq(s, k + 1, Len(s)))

\* "/".join(parts), parts a sequence of labels
RECURSIVE JoinSlash(_)
JoinSlash(parts) ==
    IF Len(parts) = 0 THEN <<>>
    ELSE IF Len(parts) = 1 THEN <<parts[1]>>
    ELSE <<parts[1], "/">> \o JoinSlash(Tail(parts))

\* a one-label segment as the label string it is; '' for an empty segment
SegmentLabel(seg) == IF Len(seg) = 1 THEN seg[1] ELSE ""

LastSegmentLabel(path) ==
    LET segs == SplitSlash(path) IN SegmentLabel(segs[Len(segs)])

\* not text or not text.strip()
IsBlank(text) == \A i \in DOMAIN text : text[i] = ""

(***************************************************************************)
(* Seed taxonomy (config.SEED_DOMAINS, cut down to two domains with one    *)
(* subdomain each and some of their aliases; subdomain_aliases[j] are the  *)
(* aliases of subdomains[j])                                               *)
(***************************************************************************)
SEED_DOMAINS ==
    << [label |-> "Health & Fitness", aliases |-> <<"health", "fitness">>,
        subdomains |-> <<"Weight Loss">>,
        subdomain_aliases |-> << <<"calorie deficit", "diet">> >>],
       [label |-> "Cooking", aliases |-> <<"food", "recipes">>,
        subdomains |-> <<"Recipes">>,
        subdomain_aliases |-> << <<"dish">> >>] >>

(***************************************************************************)
(* Labels: their lowercase word tokens (re.findall(r'\b\w+\b', lower)) and *)
(* the words of false_positive_pairs that are substrings of the label      *)
(***************************************************************************)
LabelWords(label) ==
    CASE label = "Health & Fitness" -> {"health", "fitness"}
      [] label = "Cooking"          -> {"cooking"}
      [] label = "Cookery"          -> {"cookery"}
      [] label = "Fitness"          -> {"fitness"}
      [] label = "Wellness"         -> {"wellness"}
      [] label = "Wellbeing"        -> {"wellbeing"}
      [] label = "Nutrition"        -> {"nutrition"}
      [] label = "Astronomy"        -> {"astronomy"}
      [] label = "Weight Loss"      -> {"weight", "loss"}
      [] label = "Recipes"          -> {"recipes"}
      [] label = "Planets"          -> {"planets"}
      [] label = "Mars"             -> {"mars"}
      [] label = "Keto"             -> {"keto"}
      [] label = "Personal"         -> {"personal"}
      [] label = "Ideas"            -> {"ideas"}
      [] label = "General"          -> {"general"}
      [] label = "Uncategorized"    -> {"uncategorized"}
      [] OTHER                      -> {}

\* word in label.lower(), for the words of the confusion pairs
LabelContains(label, word) ==
    CASE label = "Health & Fitness" -> word \in {"health", "fitness"}
      [] label = "Cooking"          -> word = "cooking"
      [] label = "Fitness"          -> word = "fitness"
      [] OTHER                      -> FALSE

TextContains(text, word) == \E i \in DOMAIN text : LabelContains(text[i], word)

(***************************************************************************)
(* Embedding backend (genai.embed_content): the vector of a text.  The     *)
(* vector depends on the last label and on whether the text is written     *)
(* with "/" (a leaf search text) or with ">" only (an indexed text).       *)
(***************************************************************************)
LabelVec(label) ==
    CASE label = "Health & Fitness" -> <<100, 0, 0, 0>>
      [] label = "Cooking"          -> <<0, 100, 0, 0>>
      [] label = "Cookery"          -> <<0, 96, -28, 0>>
      [] label = "Fitness"          -> <<90, 10, 6, 42>>
      [] label = "Wellness"         -> <<90, -42, 6, 10>>
      [] label = "Wellbeing"        -> <<90, -10, 30, -30>>
      [] label = "Nutrition"        -> <<-54, 82, 6, 18>>
      [] label = "Astronomy"        -> <<0, 80, 48, 36>>
      [] label = "Weight Loss"      -> <<100, 0, 0, 0>>
      [] label = "Recipes"          -> <<0, 100, 0, 0>>
      [] label = "Planets"          -> <<0, 0, 100, 0>>
      [] label = "Mars"             -> <<0, 0, 0, 100>>
      [] label = "Keto"             -> <<60, 80, 0, 0>>
      [] label = "Personal"         -> <<0, 0, 60, 80>>
      [] label = "Ideas"            -> <<0, 0, 80, 60>>
      [] label = "General"          -> <<-60, 0, 80, 0>>
      [] label = "Uncategorized"    -> <<0, -60, 0, 80>>
      [] OTHER                      -> <<50, 50, 50, 50>>

SlashVec(label) ==
    CASE label = "Mars"             -> <<0, 0, 28, 96>>
      [] label = "Keto"             -> <<80, 60, 0, 0>>
      [] OTHER                      -> <<50, 50, 50, 50>>

Embed(text) ==
    IF "/" \in Range(text) THEN SlashVec(text[Len(text)])
    ELSE LabelVec(text[Len(text)])


(***************************************************************************)
(* EmbeddingService.cosine_similarity                                      *)
(***************************************************************************)
RECURSIVE Dot(_, _)
Dot(a, b) == IF Len(a) = 0 THEN 0 ELSE a[1] * b[1] + Dot(Tail(a), Tail(b))

\* integer square root by Newton's iteration from a start r above the root
RECURSIVE NewtonSqrt(_, _)
NewtonSqrt(n, r) ==
    IF (r + (n \div r)) \div 2 >= r THEN r
    ELSE NewtonSqrt(n, (r + (n \div r)) \div 2)

SqrtOf(n) == IF n = 0 THEN 0 ELSE NewtonSqrt(n, (n \div 64) + 64)

\* np.linalg.norm, on vectors whose norm is an integer
Norm(a) == SqrtOf(Dot(a, a))

DimensionMismatch == -1

\* the similarity as computed, not brought into [0, 1]
NoClamp(similarity) == similarity

\* max(0.0, min(1.0, similarity))
Clamp(similarity) ==
    IF similarity < 0 THEN 0
    ELSE IF similarity > Scale THEN Scale
    ELSE similarity

\* 0.0 when a norm is zero, otherwise dot/(|a||b|) clamped to [0, 1]
Cosine(dot_product, norm_a, norm_b) ==
    IF norm_a = 0 \/ norm_b = 0 THEN 0
    ELSE Clamp((Scale * dot_product) \div (norm_a * norm_b))

\* raises ValueError (DimensionMismatch) on unequal lengths
cosine_similarity(a, b) ==
    IF Len(a) # Len(b) THEN DimensionMismatch
    ELSE Cosine(Dot(a, b), Norm(a), Norm(b))

(***************************************************************************)
(* EmbeddingService.generate_embedding: empty text raises; a cached text   *)
(* is answered from the cache; otherwise the backend is called and, when   *)
(* it answers (up), the vector is cached.                                  *)
(***************************************************************************)
generate_embedding(cache, text, up) ==
    IF IsBlank(text) THEN [ok |-> FALSE, embedding |-> NoEmbedding, cache |-> cache]
    ELSE IF text \in cache THEN [ok |-> TRUE, embedding |-> Embed(text), cache |-> cache]
    ELSE IF up THEN [ok |-> TRUE, embedding |-> Embed(text), cache |-> cache \cup {text}]
    ELSE [ok |-> FALSE, embedding |-> NoEmbedding, cache |-> cache]

(***************************************************************************)
(* FolderMatcher._extract_keywords, _keyword_overlap, _sanity_check        *)
(***************************************************************************)
stop_words == {"the", "a", "an", "and", "or", "but", "in", "on", "at", "to",
               "for", "of", "with", "by"}

TextWords(text) == UNION {LabelWords(text[i]) : i \in DOMAIN text}

_extract_keywords(text) ==
    {w \in TextWords(text) : Len(w) > 2 /\ w \notin stop_words}

\* len(intersection) / len(union) as the pair of the two sizes; <<0, 1>> is 0.0
OverlapRatio(keywords_a, keywords_b) ==
    IF keywords_a = {} \/ keywords_b = {} THEN <<0, 1>>
    ELSE <<Cardinality(keywords_a \cap keywords_b),
           Cardinality(keywords_a \cup keywords_b)>>

_keyword_overlap(text_a, text_b) ==
    OverlapRatio(_extract_keywords(text_a), _extract_keywords(text_b))

\* overlap < min_keyword_overlap
OverlapBelowMin(ov) == 100 * ov[1] < min_keyword_overlap_pct * ov[2]

false_positive_pairs ==
    { <<"cooking", "computer">>, <<"health", "computer">>,
      <<"finance", "fitness">>, <<"travel", "technology">> }

\* the loop over false_positive_pairs
NoConfusionPair(candidate_label, matched_label) ==
    ~ \E pair \in false_positive_pairs :
        \/ TextContains(candidate_label, pair[1]) /\ TextContains(matched_label, pair[2])
        \/ TextContains(candidate_label, pair[2]) /\ TextContains(matched_label, pair[1])

\* _sanity_check without its keyword-overlap rule
SanityNoOverlapRule(candidate_label, matched_label, similarity) ==
    IF similarity > TrustSimilarity THEN TRUE
    ELSE NoConfusionPair(candidate_label, matched_label)

_sanity_check(candidate_label, matched_label, similarity) ==
    IF similarity > TrustSimilarity THEN TRUE
    ELSE IF similarity > SuspiciousSimilarity
            /\ OverlapBelowMin(_keyword_overlap(candidate_label, matched_label))
         THEN FALSE
    ELSE NoConfusionPair(candidate_label, matched_label)

(***************************************************************************)
(* Sorting: list.sort(key=score, reverse=True) is stable                   *)
(***************************************************************************)
InsertAt(sorted, k, x) ==
    SubSeq(sorted, 1, k) \o <<x>> \o SubSeq(sorted, k + 1, Len(sorted))

InsertByScore(sorted, x) ==
    InsertAt(sorted, Cardinality({i \in DOMAIN sorted : sorted[i].score >= x.score}), x)

RECURSIVE SortByScoreDesc(_)
SortByScoreDesc(s) ==
    IF Len(s) = 0 THEN <<>>
    ELSE InsertByScore(SortByScoreDesc(SubSeq(s, 1, Len(s) - 1)), s[Len(s)])

Take(s, n) == SubSeq(s, 1, IF Len(s) < n THEN Len(s) ELSE n)

(***************************************************************************)
(* InMemoryVectorStore: _vectors is an insertion-ordered dict, here the    *)
(* sequence of its entries [vector_id, embedding, metadata]                *)
(***************************************************************************)
\* metadata.get(k) == v for every key of the filter
MatchesFilter(metadata, filter) ==
    \A k \in DOMAIN filter : metadata[k] = filter[k]

\* one entry of the scan of search: skipped when the filter or the
\* dimensions do not match
ScoreEntry(e, score, filter) ==
    IF ~ MatchesFilter(e.metadata, filter) THEN <<>>
    ELSE IF score = DimensionMismatch THEN <<>>
    ELSE <<[id |-> e.vector_id, score |-> score,
            folder_id |-> e.metadata.folder_id, path |-> e.metadata.path]>>

RECURSIVE ScoreEntries(_, _, _)
ScoreEntries(entries, query_embedding, filter) ==
    IF Len(entries) = 0 THEN <<>>
    ELSE ScoreEntry(entries[1],
                    cosine_similarity(query_embedding, entries[1].embedding), filter)
         \o ScoreEntries(Tail(entries), query_embedding, filter)

\* search that cuts the scored entries to top_k before it applies the filter
SearchFilterAfterTopK(entries, query_embedding, top_k, filter) ==
    SelectSeq(Take(SortByScoreDesc(ScoreEntries(entries, query_embedding, <<>>)), top_k),
              LAMBDA r : \E i \in DOMAIN entries :
                            /\ entries[i].vector_id = r.id
                            /\ MatchesFilter(entries[i].metadata, filter))

\* search(query_embedding, top_k, filter_metadata)
VectorSearch(entries, query_embedding, top_k, filter) ==
    Take(SortByScoreDesc(ScoreEntries(entries, query_embedding, filter)), top_k)

\* add_vector: a new id is appended (ids are never reused)
add_vector(entries, vector_id, embedding, metadata) ==
    Append(entries, [vector_id |-> vector_id, embedding |-> embedding,
                     metadata |-> metadata])

(***************************************************************************)
(* Folder entities and the matcher's state                                 *)
(*   m.vectors           InMemoryVectorStore._vectors                      *)
(*   m.folder_cache      FolderMatcher._folder_cache (id -> entity)        *)
(*   m.folders_by_depth  FolderMatcher._folders_by_depth (1..3 -> list)    *)
(*   m.emb_cache         EmbeddingService._cache (the texts it holds)      *)
(*   m.next_id           the next uuid4()                                  *)
(* aliases, timestamps and user_id of an entity are carried by the code    *)
(* but never read by the matcher; they are left out.                       *)
(***************************************************************************)
FolderEntity(folder_id, path, label, depth, parent_id, embedding_id, embedding, is_seed) ==
    [folder_id |-> folder_id, path |-> path, label |-> label, depth |-> depth,
     parent_id |-> parent_id, embedding_id |-> embedding_id,
     embedding |-> embedding, item_count |-> 0, is_seed |-> is_seed]

NoFolder == FolderEntity(None, <<>>, "", 0, None, <<>>, NoEmbedding, FALSE)

IsFolder(f) == f.folder_id # None

\* f"folder_{folder_id}"
EmbeddingIdOf(folder_id) == <<"folder_", folder_id>>

FolderMetadata(folder_id, path, depth, parent_id, is_seed) ==
    [type |-> "folder", folder_id |-> folder_id, path |-> path, depth |-> depth,
     parent_id |-> parent_id, is_seed |-> is_seed]

\* d[k] = v on a dict
Put(d, k, v) == [x \in DOMAIN d \cup {k} |-> IF x = k THEN v ELSE d[x]]

\* self._folders_by_depth[depth].append(entity), for depth <= 3
AppendAtDepth(by_depth, depth, entity) ==
    IF depth <= 3 THEN [by_depth EXCEPT ![depth] = Append(@, entity)]
    ELSE by_depth

EmptyByDepth == [d \in 1..3 |-> <<>>]

(***************************************************************************)
(* FolderMatcher.load_folders_from_store and load_existing_folders         *)
(***************************************************************************)
\* the entity built for one ExistingFolder: the label is the last path
\* segment, the depth the number of segments; parent_id and is_seed are
\* not passed and keep their defaults
LoadedEntity(folder, segments) ==
    FolderEntity(folder.folder_id, folder.path,
                 SegmentLabel(segments[Len(segments)]), Len(segments), None,
                 folder.embedding_id, folder.embedding, FALSE)

RECURSIVE load_existing_folders(_, _, _)
LoadOne(cache, by_depth, entity, rest) ==
    load_existing_folders(Put(cache, entity.folder_id, entity),
                          AppendAtDepth(by_depth, entity.depth, entity), rest)

load_existing_folders(cache, by_depth, folders) ==
    IF Len(folders) = 0 THEN [folder_cache |-> cache, folders_by_depth |-> by_depth]
    ELSE LoadOne(cache, by_depth,
                 LoadedEntity(folders[1], SplitSlash(folders[1].path)),
                 Tail(folders))

\* the ExistingFolder of every index entry whose metadata type is 'folder'
RECURSIVE ExistingFolders(_)
ExistingFolders(entries) ==
    IF Len(entries) = 0 THEN <<>>
    ELSE (IF entries[1].metadata.type = "folder"
          THEN <<[folder_id |-> entries[1].metadata.folder_id,
                  path |-> entries[1].metadata.path,
                  embedding_id |-> entries[1].vector_id,
                  embedding |-> entries[1].embedding]>>
          ELSE <<>>) \o ExistingFolders(Tail(entries))

WithLoaded(m, r) ==
    [m EXCEPT !.folder_cache = r.folder_cache,
              !.folders_by_depth = r.folders_by_depth]

load_folders_from_store(m) ==
    WithLoaded(m, load_existing_folders(m.folder_cache, m.folders_by_depth,
                                        ExistingFolders(m.vectors)))

(***************************************************************************)
(* Creation of one folder entity with its embedding: the common body of    *)
(* _create_folder and of the two loops of initialize_seed_folders.  An     *)
(* embedding failure is swallowed: the entity is still cached, without     *)
(* embedding and without an index entry.                                   *)
(***************************************************************************)
\* the entity, with the embedding g when there is one
EntityFor(folder_id, path, label, depth, parent_id, is_seed, g) ==
    IF g.ok
    THEN FolderEntity(folder_id, path, label, depth, parent_id,
                      EmbeddingIdOf(folder_id), g.embedding, is_seed)
    ELSE FolderEntity(folder_id, path, label, depth, parent_id,
                      <<>>, NoEmbedding, is_seed)

\* a registration that leaves the cache and the per-depth list alone when
\* the embedding failed
RegisterEmbeddedOnly(m, folder, g) ==
    [m |-> [vectors |-> IF g.ok
                        THEN add_vector(m.vectors, folder.embedding_id, g.embedding,
                                        FolderMetadata(folder.folder_id, folder.path,
                                                       folder.depth, folder.parent_id,
                                                       folder.is_seed))
                        ELSE m.vectors,
            folder_cache |-> IF g.ok THEN Put(m.folder_cache, folder.folder_id, folder)
                             ELSE m.folder_cache,
            folders_by_depth |-> IF g.ok
                                 THEN AppendAtDepth(m.folders_by_depth, folder.depth, folder)
                                 ELSE m.folders_by_depth,
            emb_cache |-> g.cache,
            next_id |-> folder.folder_id + 1],
     folder |-> folder,
     embedded |-> g.ok]

\* add_vector when embedded, then the cache and the per-depth list
Register(m, folder, g) ==
    [m |-> [vectors |-> IF g.ok
                        THEN add_vector(m.vectors, folder.embedding_id, g.embedding,
                                        FolderMetadata(folder.folder_id, folder.path,
                                                       folder.depth, folder.parent_id,
                                                       folder.is_seed))
                        ELSE m.vectors,
            folder_cache |-> Put(m.folder_cache, folder.folder_id, folder),
            folders_by_depth |-> AppendAtDepth(m.folders_by_depth, folder.depth, folder),
            emb_cache |-> g.cache,
            next_id |-> folder.folder_id + 1],
     folder |-> folder,
     embedded |-> g.ok]

NewFolderEmbedded(m, path, label, depth, parent_id, is_seed, g) ==
    Register(m, EntityFor(m.next_id, path, label, depth, parent_id, is_seed, g), g)

NewFolder(m, path, label, depth, parent_id, embed_text, is_seed, up) ==
    NewFolderEmbedded(m, path, label, depth, parent_id, is_seed,
                      generate_embedding(m.emb_cache, embed_text, up))

\* _create_folder with the parent's path forgotten
CreateFolderLabelOnlyPath(m, label, depth, parent, up) ==
    NewFolder(m, <<label>>, label, depth,
              IF IsFolder(parent) THEN parent.folder_id ELSE None,
              <<label>>, FALSE, up)

\* path = f"{parent.path}/{label}" if parent else label
FolderPath(label, parent) ==
    IF IsFolder(parent) THEN JoinPath(parent.path, label) ELSE <<label>>

\* _create_folder(label, depth, parent); the embedded text is the path with
\* ' > ' for '/'
_create_folder(m, label, depth, parent, up) ==
    NewFolder(m, FolderPath(label, parent), label, depth,
              IF IsFolder(parent) THEN parent.folder_id ELSE None,
              ReplaceSlash(FolderPath(label, parent)), FALSE, up)

(***************************************************************************)
(* FolderMatcher.initialize_seed_folders: up is the set of seed texts the  *)
(* backend answers during this run                                         *)
(***************************************************************************)
Collect(acc, r) == [m |-> r.m, created |-> Append(acc.created, r.folder)]

RECURSIVE SeedSubdomains(_, _, _, _)
SeedSubdomains(acc, domain, subdomains, up) ==
    IF Len(subdomains) = 0 THEN acc
    ELSE SeedSubdomains(
             Collect(acc, NewFolder(acc.m, JoinPath(domain.path, subdomains[1]),
                                    subdomains[1], 2, domain.folder_id,
                                    <<domain.label, ">", subdomains[1]>>, TRUE,
                                    <<domain.label, ">", subdomains[1]>> \in up)),
             domain, Tail(subdomains), up)

\* one domain of the outer loop: r is the creation of the domain folder
SeedDomain(acc, d, r, up) ==
    SeedSubdomains(Collect(acc, r), r.folder, d.subdomains, up)

RECURSIVE SeedDomains(_, _, _)
SeedDomains(acc, domains, up) ==
    IF Len(domains) = 0 THEN acc
    ELSE SeedDomains(
             SeedDomain(acc, domains[1],
                        NewFolder(acc.m, <<domains[1].label>>, domains[1].label, 1,
                                  None, <<domains[1].label>>, TRUE,
                                  <<domains[1].label>> \in up),
                        up),
             Tail(domains), up)

initialize_seed_folders(m, up) ==
    SeedDomains([m |-> m, created |-> <<>>], SEED_DOMAINS, up)

SeedTexts ==
    UNION { {<<SEED_DOMAINS[i].label>>}
            \cup { <<SEED_DOMAINS[i].label, ">", SEED_DOMAINS[i].subdomains[j]>> :
                   j \in DOMAIN SEED_DOMAINS[i].subdomains }
            : i \in DOMAIN SEED_DOMAINS }

SeedFolderCount == Cardinality(SeedTexts)

(***************************************************************************)
(* FolderMatcher._find_best_match                                          *)
(***************************************************************************)
\* one folder of the scan of the in-memory candidates: appended unless it
\* has no embedding, the dimensions differ or its embedding id is present
AugmentOne(results, folder, score) ==
    IF folder.embedding = NoEmbedding THEN results
    ELSE IF score = DimensionMismatch THEN results
    ELSE IF \E i \in DOMAIN results : results[i].id = folder.embedding_id THEN results
    ELSE Append(results, [id |-> folder.embedding_id, score |-> score,
                          folder_id |-> folder.folder_id, path |-> folder.path])

RECURSIVE AugmentFromCache(_, _, _)
AugmentFromCache(results, candidates, query_embedding) ==
    IF Len(candidates) = 0 THEN results
    ELSE AugmentFromCache(
             AugmentOne(results, candidates[1],
                        cosine_similarity(query_embedding, candidates[1].embedding)),
             Tail(candidates), query_embedding)

\* the folder a result stands for: the cached entity, else one rebuilt from
\* the metadata when it has a path
ResolveFolder(cache, r, depth) ==
    IF r.folder_id \in DOMAIN cache THEN cache[r.folder_id]
    ELSE IF r.path # <<>>
         THEN FolderEntity(r.folder_id, r.path, LastSegmentLabel(r.path), depth,
                           None, r.id, NoEmbedding, FALSE)
    ELSE NoFolder

\* the least index of a set of indices, 0 when there is none
FirstOf(hits) == IF hits = {} THEN 0 ELSE CHOOSE i \in hits : \A j \in hits : i <= j

\* one step of the walk over the results, with the folder the result
\* resolves to
Accepts(result, folder, search_text, threshold) ==
    /\ ~ (result.score < threshold)
    /\ IsFolder(folder)
    /\ _sanity_check(search_text, folder.path, result.score)

\* the same step with an exclusive threshold
AcceptsStrict(result, folder, search_text, threshold) ==
    /\ result.score > threshold
    /\ IsFolder(folder)
    /\ _sanity_check(search_text, folder.path, result.score)

\* the walk over the sorted results with an exclusive threshold
FirstAcceptedStrict(results, cache, search_text, depth, threshold) ==
    FirstOf({i \in DOMAIN results :
                AcceptsStrict(results[i], ResolveFolder(cache, results[i], depth),
                              search_text, threshold)})

\* a walk that ends at the first result at or above the threshold, whether
\* or not it passes the sanity check
FirstAcceptedEndsAtRejected(results, cache, search_text, depth, threshold) ==
    LET first == FirstOf({i \in DOMAIN results : ~ (results[i].score < threshold)})
    IN  IF first # 0
           /\ Accepts(results[first], ResolveFolder(cache, results[first], depth),
                      search_text, threshold)
        THEN first ELSE 0

\* the walk over the sorted results: the index of the first one at or above
\* the threshold whose folder resolves and passes the sanity check, else 0
FirstAccepted(results, cache, search_text, depth, threshold) ==
    FirstOf({i \in DOMAIN results :
                Accepts(results[i], ResolveFolder(cache, results[i], depth),
                        search_text, threshold)})

FilterByParent(candidates, parent_id) ==
    SelectSeq(candidates, LAMBDA f : f.parent_id = parent_id)

\* filter_metadata
SearchFilter(depth, parent_id) ==
    IF parent_id # None
    THEN [type |-> "folder", depth |-> depth, parent_id |-> parent_id]
    ELSE [type |-> "folder", depth |-> depth]

\* the results of the index search, widened by the in-memory candidates
\* when they are fewer than three, then sorted
RankedResults(m, depth, parent_id, query_embedding, found) ==
    SortByScoreDesc(
        IF Len(found) < MinResults
        THEN AugmentFromCache(found,
                              IF parent_id # None
                              THEN FilterByParent(m.folders_by_depth[depth], parent_id)
                              ELSE m.folders_by_depth[depth],
                              query_embedding)
        ELSE found)

\* the outcome of the walk, k the accepted index
FindOutcome(m, search_text, depth, g, results, k) ==
    [folder |-> IF k = 0 THEN NoFolder ELSE ResolveFolder(m.folder_cache, results[k], depth),
     score |-> IF k = 0 THEN 0 ELSE results[k].score,
     emb_cache |-> g.cache,
     failed |-> FALSE,
     results |-> results,
     search_text |-> search_text]

FindRanked(m, search_text, depth, threshold, g, results) ==
    FindOutcome(m, search_text, depth, g, results,
                FirstAccepted(results, m.folder_cache, search_text, depth, threshold))

\* after the embedding call g: a failure returns (None, 0.0)
FindEmbedded(m, search_text, depth, parent_id, threshold, g) ==
    IF ~ g.ok
    THEN [folder |-> NoFolder, score |-> 0, emb_cache |-> g.cache,
          failed |-> TRUE, results |-> <<>>, search_text |-> search_text]
    ELSE FindRanked(m, search_text, depth, threshold, g,
                    RankedResults(m, depth, parent_id, g.embedding,
                                  VectorSearch(m.vectors, g.embedding, TopK,
                                               SearchFilter(depth, parent_id))))

\* returns the matched folder (or NoFolder), its score (or 0), the embedding
\* cache, whether embedding the search text failed, and the sorted results
_find_best_match(m, search_text, depth, parent_id, threshold, up) ==
    FindEmbedded(m, search_text, depth, parent_id, threshold,
                 generate_embedding(m.emb_cache, search_text, up))

(***************************************************************************)
(* MatchResult, HierarchicalMatch (models.py)                              *)
(***************************************************************************)
\* a MatchResult that keeps a folder in new_folder whenever one is matched
MatchResultBothSet(level, action, matched_folder, new_folder, similarity_score, label_used) ==
    [level |-> level, action |-> action, matched_folder |-> matched_folder,
     new_folder |-> IF IsFolder(new_folder) THEN new_folder ELSE matched_folder,
     similarity_score |-> similarity_score, label_used |-> label_used]

MatchResult(level, action, matched_folder, new_folder, similarity_score, label_used) ==
    [level |-> level, action |-> action, matched_folder |-> matched_folder,
     new_folder |-> new_folder, similarity_score |-> similarity_score,
     label_used |-> label_used]

\* match_leaf returning None
NoResult == MatchResult(0, "NONE", NoFolder, NoFolder, 0, "")

\* MatchResult.get_folder: matched_folder or new_folder
get_folder(result) ==
    IF IsFolder(result.matched_folder) THEN result.matched_folder ELSE result.new_folder

\* a final path of the domain and the subdomain alone
FinalPathWithoutLeaf(domain_result, subdomain_result, leaf_result) ==
    JoinSlash( (IF IsFolder(get_folder(domain_result))
                THEN <<get_folder(domain_result).label>> ELSE <<>>)
               \o (IF IsFolder(get_folder(subdomain_result))
                   THEN <<get_folder(subdomain_result).label>> ELSE <<>>) )

\* HierarchicalMatch.get_final_path
get_final_path(domain_result, subdomain_result, leaf_result) ==
    LET d == get_folder(domain_result)
        s == get_folder(subdomain_result)
        l == get_folder(leaf_result)
    IN  JoinSlash( (IF IsFolder(d) THEN <<d.label>> ELSE <<>>)
                   \o (IF IsFolder(s) THEN <<s.label>> ELSE <<>>)
                   \o (IF leaf_result # NoResult /\ IsFolder(l) /\ leaf_result.action # "SKIP"
                       THEN <<l.label>> ELSE <<>>) )

\* get_created_folders that counts CREATE_NEW only
CreatedFoldersCreateNewOnly(domain_result, subdomain_result, leaf_result) ==
    (IF domain_result.action = "CREATE_NEW" /\ IsFolder(domain_result.new_folder)
     THEN <<domain_result.new_folder>> ELSE <<>>)
    \o (IF subdomain_result.action = "CREATE_NEW" /\ IsFolder(subdomain_result.new_folder)
        THEN <<subdomain_result.new_folder>> ELSE <<>>)
    \o (IF leaf_result # NoResult /\ leaf_result.action = "CREATE_NEW"
           /\ IsFolder(leaf_result.new_folder)
        THEN <<leaf_result.new_folder>> ELSE <<>>)

\* HierarchicalMatch.get_created_folders
get_created_folders(domain_result, subdomain_result, leaf_result) ==
    (IF domain_result.action = "CREATE_NEW" /\ IsFolder(domain_result.new_folder)
     THEN <<domain_result.new_folder>> ELSE <<>>)
    \o (IF subdomain_result.action \in {"CREATE_NEW", "ATTACH_AS_CHILD"}
           /\ IsFolder(subdomain_result.new_folder)
        THEN <<subdomain_result.new_folder>> ELSE <<>>)
    \o (IF leaf_result # NoResult
           /\ leaf_result.action \in {"CREATE_NEW", "ATTACH_AS_CHILD"}
           /\ IsFolder(leaf_result.new_folder)
        THEN <<leaf_result.new_folder>> ELSE <<>>)

\* HierarchicalMatch.get_reused_folders
get_reused_folders(domain_result, subdomain_result, leaf_result) ==
    (IF domain_result.action = "REUSE_EXISTING" /\ IsFolder(domain_result.matched_folder)
     THEN <<domain_result.matched_folder>> ELSE <<>>)
    \o (IF subdomain_result.action = "REUSE_EXISTING"
           /\ IsFolder(subdomain_result.matched_folder)
        THEN <<subdomain_result.matched_folder>> ELSE <<>>)
    \o (IF leaf_result # NoResult /\ leaf_result.action = "REUSE_EXISTING"
           /\ IsFolder(leaf_result.matched_folder)
        THEN <<leaf_result.matched_folder>> ELSE <<>>)

(***************************************************************************)
(* Taxonomy candidates.  leaf_topic is NoLeaf (None) or a label with its   *)
(* optional flag; confidence is scaled like a score.                       *)
(***************************************************************************)
NoLeaf == [label |-> "", optional |-> FALSE]

Candidate(domain, subdomain, leaf_topic, confidence) ==
    [domain |-> domain, subdomain |-> subdomain, leaf_topic |-> leaf_topic,
     confidence |-> confidence]

NoCandidate == Candidate("", "", NoLeaf, 0)

Candidates ==
    { Candidate("Nutrition", "Recipes", [label |-> "Keto", optional |-> TRUE], 9000),
      Candidate("Cookery", "Recipes", NoLeaf, 9000),
      Candidate("Astronomy", "Planets", [label |-> "Mars", optional |-> FALSE], 9000),
      Candidate("Astronomy", "Planets", NoLeaf, 9000),
      Candidate("Astronomy", "Planets", [label |-> "Mars", optional |-> TRUE], 9000),
      Candidate("Astronomy", "Planets", [label |-> "Mars", optional |-> TRUE], 6000),
      Candidate("Wellness", "Weight Loss", [label |-> "Keto", optional |-> TRUE], 6000),
      Candidate("Wellbeing", "Weight Loss", NoLeaf, 9000) }

\* the embedding calls of one match, in order
CallSites == {"domain_search", "domain_create", "subdomain_search",
              "subdomain_probe", "subdomain_create", "leaf_search", "leaf_create"}

(***************************************************************************)
(* FolderMatcher.match_domain / match_subdomain / match_leaf / match       *)
(* up[c] tells whether the backend answers at call site c.  Each level     *)
(* yields the matcher state after it, the outcome f of its search, whether *)
(* a created folder got its embedding, and the MatchResult.                *)
(***************************************************************************)
WithCache(m, emb_cache) == [m EXCEPT !.emb_cache = emb_cache]

\* the level's return when the search has matched a folder
Reused(m, level, f) ==
    [m |-> WithCache(m, f.emb_cache), find |-> f, embedded |-> TRUE,
     result |-> MatchResult(level, "REUSE_EXISTING", f.folder, NoFolder,
                            f.score, f.folder.label)]

\* the level's return after _create_folder (c)
Created(level, action, f, c) ==
    [m |-> c.m, find |-> f, embedded |-> c.embedded,
     result |-> MatchResult(level, action, NoFolder, c.folder, 0, c.folder.label)]

\* the level's return when the leaf is skipped
Skipped(m, f, label) ==
    [m |-> m, find |-> f, embedded |-> TRUE,
     result |-> MatchResult(3, "SKIP", NoFolder, NoFolder, 0, label)]

DomainDecide(m, candidate, up, f) ==
    IF IsFolder(f.folder) THEN Reused(m, 1, f)
    ELSE Created(1, "CREATE_NEW", f,
                 _create_folder(WithCache(m, f.emb_cache), candidate.domain, 1,
                                NoFolder, up["domain_create"]))

match_domain(m, candidate, up) ==
    DomainDecide(m, candidate, up,
                 _find_best_match(m, <<candidate.domain>>, 1, None,
                                  domain_threshold, up["domain_search"]))

\* the global probe at depth 2 has run (its outcome is only logged); the
\* subdomain is created under the domain
SubdomainAttach(m, candidate, domain_folder, up, f, probe) ==
    Created(2, "ATTACH_AS_CHILD", f,
            _create_folder(WithCache(m, probe.emb_cache), candidate.subdomain, 2,
                           domain_folder, up["subdomain_create"]))

SubdomainDecide(m, candidate, domain_folder, up, f) ==
    IF IsFolder(f.folder) THEN Reused(m, 2, f)
    ELSE SubdomainAttach(m, candidate, domain_folder, up, f,
                         _find_best_match(WithCache(m, f.emb_cache),
                                          <<candidate.subdomain>>, 2, None,
                                          subdomain_threshold, up["subdomain_probe"]))

SubdomainUnder(m, candidate, domain_folder, up) ==
    SubdomainDecide(m, candidate, domain_folder, up,
                    _find_best_match(m, <<domain_folder.label, ">", candidate.subdomain>>,
                                     2, domain_folder.folder_id,
                                     subdomain_threshold, up["subdomain_search"]))

match_subdomain(m, candidate, domain_result, up) ==
    SubdomainUnder(m, candidate, get_folder(domain_result), up)

NoFind == [folder |-> NoFolder, score |-> 0, emb_cache |-> {}, failed |-> FALSE,
           results |-> <<>>, search_text |-> <<>>]

\* the decision after the leaf search with optional leaves created like others
LeafDecideCreatesOptional(m, candidate, subdomain_folder, up, f) ==
    IF IsFolder(f.folder) THEN Reused(m, 3, f)
    ELSE IF subdomain_folder.depth >= max_depth
    THEN Skipped(WithCache(m, f.emb_cache), f, candidate.leaf_topic.label)
    ELSE Created(3, "ATTACH_AS_CHILD", f,
                 _create_folder(WithCache(m, f.emb_cache), candidate.leaf_topic.label,
                                3, subdomain_folder, up["leaf_create"]))

LeafDecide(m, candidate, subdomain_folder, up, f) ==
    IF IsFolder(f.folder) THEN Reused(m, 3, f)
    ELSE IF subdomain_folder.depth >= max_depth
    THEN Skipped(WithCache(m, f.emb_cache), f, candidate.leaf_topic.label)
    ELSE IF candidate.leaf_topic.optional
    THEN Skipped(WithCache(m, f.emb_cache), f, candidate.leaf_topic.label)
    ELSE Created(3, "ATTACH_AS_CHILD", f,
                 _create_folder(WithCache(m, f.emb_cache), candidate.leaf_topic.label,
                                3, subdomain_folder, up["leaf_create"]))

\* match_leaf with the confidence test dropped
LeafUnderAnyConfidence(m, candidate, subdomain_folder, up) ==
    IF candidate.leaf_topic = NoLeaf
    THEN [m |-> m, find |-> NoFind, embedded |-> TRUE, result |-> NoResult]
    ELSE IF ~ IsFolder(subdomain_folder)
    THEN [m |-> m, find |-> NoFind, embedded |-> TRUE, result |-> NoResult]
    ELSE LeafDecide(m, candidate, subdomain_folder, up,
                    _find_best_match(m,
                                     subdomain_folder.path
                                         \o <<">", candidate.leaf_topic.label>>,
                                     3, subdomain_folder.folder_id,
                                     leaf_threshold, up["leaf_search"]))

LeafUnder(m, candidate, subdomain_folder, up) ==
    IF candidate.leaf_topic = NoLeaf
    THEN [m |-> m, find |-> NoFind, embedded |-> TRUE, result |-> NoResult]
    ELSE IF candidate.leaf_topic.optional
            /\ candidate.confidence < leaf_confidence_threshold
    THEN Skipped(m, NoFind, candidate.leaf_topic.label)
    ELSE IF ~ IsFolder(subdomain_folder)
    THEN [m |-> m, find |-> NoFind, embedded |-> TRUE, result |-> NoResult]
    ELSE LeafDecide(m, candidate, subdomain_folder, up,
                    _find_best_match(m,
                                     subdomain_folder.path
                                         \o <<">", candidate.leaf_topic.label>>,
                                     3, subdomain_folder.folder_id,
                                     leaf_threshold, up["leaf_search"]))

match_leaf(m, candidate, subdomain_result, up) ==
    LeafUnder(m, candidate, get_folder(subdomain_result), up)

\* the HierarchicalMatch of the three level outcomes d, s, l, with the
\* matcher state after the leaf level
HierarchicalMatch(candidate, d, s, l) ==
    [m |-> l.m,
     candidate |-> candidate,
     domain_result |-> d.result,
     subdomain_result |-> s.result,
     leaf_result |-> l.result,
     finds |-> <<d.find, s.find, l.find>>,
     embedded |-> <<d.embedded, s.embedded, l.embedded>>,
     final_path |-> get_final_path(d.result, s.result, l.result),
     created |-> get_created_folders(d.result, s.result, l.result)]


(***************************************************************************)
(* TaxonomyGenerator (taxonomy_generator.py) and config.ALIAS_MAP          *)
(***************************************************************************)
\* str.lower() on the strings that occur
Lower(text) ==
    CASE text = "Health & Fitness"  -> "health & fitness"
      [] text = "Weight Loss"       -> "weight loss"
      [] text = "Cooking"           -> "cooking"
      [] text = "Recipes"           -> "recipes"
      [] text = "Fitness"           -> "fitness"
      [] text = "Astronomy"         -> "astronomy"
      [] text = " Calorie Deficit " -> " calorie deficit "
      [] OTHER                      -> text

\* str.strip() on the strings that occur
Strip(text) == IF text = " calorie deficit " THEN "calorie deficit" ELSE text

\* build_alias_map(): every key with the path that the last assignment to
\* it stores; rank orders the assignments of the two nested loops
ALIAS_MAP ==
    LET entries ==
            UNION { {[rank |-> 1000 * i, key |-> Lower(SEED_DOMAINS[i].label),
                      path |-> <<SEED_DOMAINS[i].label>>]}
                    \cup {[rank |-> 1000 * i + a,
                           key |-> Lower(SEED_DOMAINS[i].aliases[a]),
                           path |-> <<SEED_DOMAINS[i].label>>] :
                          a \in DOMAIN SEED_DOMAINS[i].aliases}
                    \cup UNION { {[rank |-> 1000 * i + 100 * j,
                                   key |-> Lower(SEED_DOMAINS[i].subdomains[j]),
                                   path |-> <<SEED_DOMAINS[i].label, "/",
                                              SEED_DOMAINS[i].subdomains[j]>>]}
                                 \cup {[rank |-> 1000 * i + 100 * j + a,
                                        key |-> Lower(SEED_DOMAINS[i].subdomain_aliases[j][a]),
                                        path |-> <<SEED_DOMAINS[i].label, "/",
                                                   SEED_DOMAINS[i].subdomains[j]>>] :
                                       a \in DOMAIN SEED_DOMAINS[i].subdomain_aliases[j]}
                                 : j \in DOMAIN SEED_DOMAINS[i].subdomains }
                    : i \in DOMAIN SEED_DOMAINS }
    IN  [k \in {e.key : e \in entries} |->
            (CHOOSE e \in entries :
                /\ e.key = k
                /\ \A f \in entries : f.key = k => f.rank <= e.rank).path]

\* alias in f"{item.raw_topic} {item.summary}".lower(), for the items that
\* occur (no summary holds an alias)
AliasIn(alias, item) ==
    \/ item.raw_topic = " Calorie Deficit " /\ alias = "calorie deficit"
    \/ item.raw_topic = "health" /\ alias = "health"
    \/ item.raw_topic = "keto diet" /\ alias = "diet"

\* _fallback_classification: the first domain or subdomain of SEED_DOMAINS,
\* in the order of the loops, with the highest alias score above 0, else
\* Personal/Ideas; confidence 0.5
_fallback_classification(item) ==
    LET hits(aliases) == Cardinality({a \in DOMAIN aliases : AliasIn(aliases[a], item)})
        options ==
            UNION { {[rank |-> 1000 * i, score |-> hits(SEED_DOMAINS[i].aliases),
                      domain |-> SEED_DOMAINS[i].label, subdomain |-> "General"]}
                    \cup {[rank |-> 1000 * i + j,
                           score |-> hits(SEED_DOMAINS[i].aliases)
                                        + hits(SEED_DOMAINS[i].subdomain_aliases[j]),
                           domain |-> SEED_DOMAINS[i].label,
                           subdomain |-> SEED_DOMAINS[i].subdomains[j]] :
                          j \in DOMAIN SEED_DOMAINS[i].subdomains}
                    : i \in DOMAIN SEED_DOMAINS }
        best == CHOOSE o \in options :
                    \A q \in options :
                        \/ q.score < o.score
                        \/ q.score = o.score /\ q.rank >= o.rank
    IN  IF best.score > 0
        THEN Candidate(best.domain, best.subdomain, NoLeaf, 5000)
        ELSE Candidate("Personal", "Ideas", NoLeaf, 5000)

\* _parse_llm_response: the JSON object of a response that is JSON, JSON
\* inside a ``` fence, or JSON with text around it; anything else raises
_parse_llm_response(response) ==
    IF response.form \in {"json", "fenced", "prose around json"}
    THEN [ok |-> TRUE, parsed |-> response.body]
    ELSE [ok |-> FALSE, parsed |-> response.body]

\* _validate_and_build_candidate: a domain label that is an alias of a seed
\* domain becomes that domain (the labels that occur are left as they are
\* by _clean_label)
_validate_and_build_candidate(parsed) ==
    Candidate(IF Lower(parsed.domain) \in DOMAIN ALIAS_MAP
                 /\ "/" \notin Range(ALIAS_MAP[Lower(parsed.domain)])
              THEN ALIAS_MAP[Lower(parsed.domain)][1]
              ELSE parsed.domain,
              parsed.subdomain, parsed.leaf_topic, parsed.confidence)

\* what the model (llm) does in one call of generate: _configure raises
\* (package missing, no API key) or the model is there; generate_content
\* raises or answers with a response
LlmOutcomes ==
    { [configure |-> c, call |-> "ok", response |-> [form |-> "garbage", body |-> <<>>]] :
         c \in {"google-generativeai package not installed",
                "GEMINI_API_KEY not set in environment"} }
    \cup { [configure |-> "ok", call |-> "raises",
            response |-> [form |-> "garbage", body |-> <<>>]] }
    \cup { [configure |-> "ok", call |-> "ok",
            response |-> [form |-> "garbage", body |-> <<>>]] }
    \cup { [configure |-> "ok", call |-> "ok", response |-> [form |-> f, body |-> b]] :
             f \in {"json", "fenced", "prose around json"},
             b \in { [domain |-> "Astronomy", subdomain |-> "Planets",
                      leaf_topic |-> NoLeaf, confidence |-> 9000],
                     [domain |-> "Astronomy", subdomain |-> "Planets",
                      leaf_topic |-> [label |-> "Mars", optional |-> FALSE],
                      confidence |-> 9000],
                     [domain |-> "Fitness", subdomain |-> "Weight Loss",
                      leaf_topic |-> NoLeaf, confidence |-> 8000] } }

\* TaxonomyGenerator.generate(item) with the model llm: the candidate, or
\* the exception that leaves generate (raised); via tells which branch
\* returned, step how far the model was used ("failed" when the step the
\* model had reached failed)
generate(item, llm) ==
    LET returns(via, step, candidate) ==
            [raised |-> "", via |-> via, step |-> step, candidate |-> candidate]
        key == Strip(Lower(item.raw_topic))
        parsed == _parse_llm_response(llm.response)
    IN  IF item.raw_topic = "" /\ item.summary = ""
        THEN returns("empty", "none", Candidate("Uncategorized", "General", NoLeaf, 3000))
        ELSE IF key \in DOMAIN ALIAS_MAP /\ Len(SplitSlash(ALIAS_MAP[key])) >= 2
        THEN returns("alias", "none",
                     Candidate(SegmentLabel(SplitSlash(ALIAS_MAP[key])[1]),
                               SegmentLabel(SplitSlash(ALIAS_MAP[key])[2]), NoLeaf, 9500))
        ELSE IF llm.configure # "ok"
        THEN [raised |-> llm.configure, via |-> "raise", step |-> "configure failed",
              candidate |-> NoCandidate]
        ELSE IF llm.call # "ok"
        THEN returns("fallback", "call failed", _fallback_classification(item))
        ELSE IF ~ parsed.ok
        THEN returns("fallback", "parse failed", _fallback_classification(item))
        ELSE returns("llm", "call", _validate_and_build_candidate(parsed.parsed))

(***************************************************************************)
(* State                                                                   *)
(*   vectors, folder_cache, folders_by_depth, emb_cache, next_id: see m    *)
(*   db_folders  LocalJsonFolderRepository._folders (id -> record)         *)
(*   loads       executions of load_folders_from_store in this process     *)
(*   seed_runs   executions of initialize_seed_folders so far              *)
(*   matches     calls of match so far                                     *)
(*   lineage     "fresh": nothing has run; "seeded": one seeding on one    *)
(*               matcher, followed by match calls and by classify calls    *)
(*               that returned with the repository updated only; "mixed":  *)
(*               the rest                                                  *)
(*   last        <<>> or the record of the match that was the last step,   *)
(*               with the ids that were cached when it was called          *)
(*   prev        <<>> or candidate and final path of the match just before *)
(*               last, when that was the step before                       *)
(*   workers     the position of each of two threads inside match          *)
(*   calc        <<>> or the record of one call of cosine_similarity or of *)
(*               InMemoryVectorStore.search: its arguments and its result  *)
(*   associations  LocalJsonItemFolderRepository._associations: the folder *)
(*               id of each item id, None for an item that has no entry    *)
(*   item_folders  the table of SupabaseItemFolderRepository: the folder   *)
(*               id stored under each item_id key, None for no row         *)
(*   latest      the folder of the most recent write per item id: of the   *)
(*               last associate_item, of a move_item of an associated      *)
(*               item, of a classify that resolved a folder; None at first *)
(*               and after remove_item                                     *)
(*   output      <<>> or the record of the classify that was the last step *)
(***************************************************************************)
VARIABLES vectors, folder_cache, folders_by_depth, emb_cache, next_id,
          db_folders, loads, seed_runs, matches, lineage, last, prev, workers,
          calc, associations, item_folders, latest, output

vars == <<vectors, folder_cache, folders_by_depth, emb_cache, next_id,
          db_folders, loads, seed_runs, matches, lineage, last, prev, workers,
          calc, associations, item_folders, latest, output>>

\* the variables that the matcher and AutoFolder's initialisation leave alone
others == <<calc, associations, item_folders, latest, output>>

\* the ids of the items that are classified: a UUID string, and a string that
\* is none (process_batch_file numbers the items, process_direct_input uses
\* the time)
ItemIds == { <<"uuid", "7c9e6679">>, <<"item-1">> }

\* SupabaseItemFolderRepository._ensure_uuid: a valid UUID is kept, any other
\* string becomes its uuid5
_ensure_uuid(value) ==
    IF value[1] = "uuid" THEN value ELSE <<"uuid", "uuid5 of", value[1]>>

\* no item is associated, nothing has been classified
NoItems ==
    /\ associations = [i \in ItemIds |-> None]
    /\ item_folders = [k \in {_ensure_uuid(i) : i \in ItemIds} |-> None]
    /\ latest = [i \in ItemIds |-> None]
    /\ output = <<>>

Matcher == [vectors |-> vectors, folder_cache |-> folder_cache,
            folders_by_depth |-> folders_by_depth, emb_cache |-> emb_cache,
            next_id |-> next_id]

EmptyMatcher == [vectors |-> <<>>, folder_cache |-> <<>>,
                 folders_by_depth |-> EmptyByDepth, emb_cache |-> {}, next_id |-> 1]

SetMatcher(m) ==
    /\ vectors' = m.vectors
    /\ folder_cache' = m.folder_cache
    /\ folders_by_depth' = m.folders_by_depth
    /\ emb_cache' = m.emb_cache
    /\ next_id' = m.next_id

\* FolderEntity.to_dict as stored by LocalJsonFolderRepository.create_folder
ToDbRecord(folder) ==
    [folder_id |-> folder.folder_id, path |-> folder.path, label |-> folder.label,
     depth |-> folder.depth, parent_id |-> folder.parent_id,
     embedding_id |-> folder.embedding_id, item_count |-> folder.item_count,
     is_seed |-> folder.is_seed]

\* the loop of initialize_seed_taxonomy: create_folder per seed folder; an
\* id that is already stored raises, which is swallowed
RECURSIVE StoreFolders(_, _)
StoreFolders(db, folders) ==
    IF Len(folders) = 0 THEN db
    ELSE StoreFolders(IF folders[1].folder_id \in DOMAIN db THEN db
                      ELSE Put(db, folders[1].folder_id, ToDbRecord(folders[1])),
                      Tail(folders))

Workers == {1, 2}

Idle == [pc |-> "idle", candidate |-> NoCandidate, domain_result |-> NoResult,
         subdomain_result |-> NoResult]

\* the matcher is in state m
MatcherIs(m) ==
    /\ vectors = m.vectors
    /\ folder_cache = m.folder_cache
    /\ folders_by_depth = m.folders_by_depth
    /\ emb_cache = m.emb_cache
    /\ next_id = m.next_id

Init ==
    /\ MatcherIs(EmptyMatcher)
    /\ db_folders = <<>>
    /\ loads = 0
    /\ seed_runs = 0
    /\ matches = 0
    /\ lineage = "fresh"
    /\ last = <<>>
    /\ prev = <<>>
    /\ workers = [w \in Workers |-> Idle]
    /\ calc = <<>>
    /\ NoItems

CanSeed == /\ seed_runs < MaxSeedRuns
           /\ next_id + SeedFolderCount - 1 <= MaxFolders

\* the backend during one seeding run: reachable or not
SeedUps == {SeedTexts, {}}

\* AutoFolder.initialize_seed_taxonomy: r is what initialize_seed_folders
\* returns; its folders are stored in the repository
StoreSeeds(r) ==
    /\ SetMatcher(r.m)
    /\ db_folders' = StoreFolders(db_folders, r.created)
    /\ seed_runs' = seed_runs + 1
    /\ lineage' = IF lineage = "fresh" THEN "seeded" ELSE "mixed"
    /\ UNCHANGED matches

SeedTaxonomy(m, up) == StoreSeeds(initialize_seed_folders(m, up))

\* _ensure_initialized on the matcher m that has loaded the store: seeds
\* when no depth-1 folder is cached
EnsureInitialized(m) ==
    IF Len(m.folders_by_depth[1]) = 0
    THEN /\ CanSeed
         /\ \E up \in SeedUps : SeedTaxonomy(m, up)
    ELSE /\ SetMatcher(m)
         /\ lineage' = "mixed"
         /\ UNCHANGED <<db_folders, seed_runs, matches>>

\* AutoFolder() with auto_init_seed=True
ConstructAutoFolder ==
    /\ loads < MaxLoads
    /\ EnsureInitialized(load_folders_from_store(Matcher))
    /\ loads' = loads + 1
    /\ last' = <<>>
    /\ prev' = <<>>
    /\ UNCHANGED <<workers, others>>

\* initialize_seed(): AutoFolder(auto_init_seed=False), then
\* initialize_seed_taxonomy, whatever the store holds
InitializeSeedEntry ==
    /\ CanSeed
    /\ \E up \in SeedUps : SeedTaxonomy(Matcher, up)
    /\ last' = <<>>
    /\ prev' = <<>>
    /\ UNCHANGED <<loads, workers, others>>

\* the process ends and a new one starts: the matcher singleton is new, the
\* vector store, the embedding cache and the repository are read back from
\* their files
Restart ==
    /\ folder_cache # <<>>
    /\ folder_cache' = <<>>
    /\ folders_by_depth' = EmptyByDepth
    /\ loads' = 0
    /\ lineage' = "mixed"
    /\ last' = <<>>
    /\ prev' = <<>>
    /\ UNCHANGED <<vectors, emb_cache, next_id, db_folders, seed_runs, matches, workers,
                   others>>

StripFind(f) == [folder |-> f.folder, score |-> f.score, failed |-> f.failed,
                 results |-> f.results, search_text |-> f.search_text]

MatchRecord(r) ==
    [candidate |-> r.candidate, domain_result |-> r.domain_result,
     subdomain_result |-> r.subdomain_result, leaf_result |-> r.leaf_result,
     finds |-> <<StripFind(r.finds[1]), StripFind(r.finds[2]), StripFind(r.finds[3])>>,
     embedded |-> r.embedded, final_path |-> r.final_path, created |-> r.created,
     cached_before |-> DOMAIN folder_cache]

\* the answers of the backend at the call sites of one level: every call
\* may fail, but for the creation at the domain and the subdomain level
\* after a search that succeeded, which has cached the very text that the
\* creation embeds
Down(sites) == [c \in CallSites |-> c \notin sites]

DomainUps == {Down({}), Down({"domain_search"}), Down({"domain_search", "domain_create"})}

SubdomainUps ==
    {Down(x) : x \in {y \in SUBSET {"subdomain_search", "subdomain_probe",
                                    "subdomain_create"} :
                        "subdomain_create" \in y => "subdomain_search" \in y}}

LeafUps == {Down(x) : x \in SUBSET {"leaf_search", "leaf_create"}}

\* the HierarchicalMatch r is returned
MatchReturns(r) ==
    /\ r.m.next_id <= MaxFolders + 1
    /\ SetMatcher(r.m)
    /\ last' = <<MatchRecord(r)>>
    /\ prev' = IF last = <<>> THEN <<>>
               ELSE <<[candidate |-> last[1].candidate,
                       final_path |-> last[1].final_path]>>

\* match_leaf after the subdomain outcome s
MatchLeafStep(candidate, d, s) ==
    \E up \in LeafUps :
        MatchReturns(HierarchicalMatch(candidate, d, s,
                                       match_leaf(s.m, candidate, s.result, up)))

\* match_subdomain after the domain outcome d
MatchSubdomainStep(candidate, d) ==
    \E up \in SubdomainUps :
        MatchLeafStep(candidate, d, match_subdomain(d.m, candidate, d.result, up))

\* FolderMatcher.match(candidate) on the matcher of an AutoFolder: the three
\* levels in order, each with the backend's answers at its call sites
Match ==
    /\ loads > 0
    /\ matches < MaxMatches
    /\ \E candidate \in Candidates, up \in DomainUps :
          MatchSubdomainStep(candidate, match_domain(Matcher, candidate, up))
    /\ matches' = matches + 1
    /\ lineage' = IF lineage = "seeded" THEN "seeded" ELSE "mixed"
    /\ UNCHANGED <<db_folders, loads, seed_runs, workers, others>>

Next ==
    \/ ConstructAutoFolder
    \/ InitializeSeedEntry
    \/ Restart
    \/ Match

Spec == Init /\ [][Next]_vars

(***************************************************************************)
(* Two threads in match_domain and match_subdomain on one matcher.         *)
(* Nothing in FolderMatcher takes a lock; a thread can be suspended in a   *)
(* backend call, in particular in the one of _create_folder, after         *)
(* _find_best_match has returned.  The store has been seeded and the       *)
(* backend answers every call.                                             *)
(***************************************************************************)
SeededStore == initialize_seed_folders(EmptyMatcher, SeedTexts)

InitConc ==
    /\ MatcherIs(SeededStore.m)
    /\ db_folders = StoreFolders(<<>>, SeededStore.created)
    /\ loads = 1
    /\ seed_runs = 1
    /\ matches = 0
    /\ lineage = "seeded"
    /\ last = <<>>
    /\ prev = <<>>
    /\ workers = [w \in Workers |-> Idle]
    /\ calc = <<>>
    /\ NoItems

\* thread w moves to pc with the results it has so far
At(w, pc, candidate, domain_result, subdomain_result) ==
    workers' = [workers EXCEPT ![w] =
                   [pc |-> pc, candidate |-> candidate,
                    domain_result |-> domain_result,
                    subdomain_result |-> subdomain_result]]

\* thread w has the outcome f of _find_best_match at the domain level: it
\* returns the matched folder or goes on to _create_folder
DomainSearched(w, candidate, f) ==
    /\ emb_cache' = f.emb_cache
    /\ IF IsFolder(f.folder)
       THEN At(w, "subdomain_search", candidate, Reused(Matcher, 1, f).result, NoResult)
       ELSE At(w, "domain_create", candidate, NoResult, NoResult)

\* match_domain up to the return of _find_best_match
DomainSearch(w) ==
    /\ workers[w].pc = "idle"
    /\ \E candidate \in Candidates :
          DomainSearched(w, candidate,
                         _find_best_match(Matcher, <<candidate.domain>>, 1, None,
                                          domain_threshold, TRUE))
    /\ UNCHANGED <<vectors, folder_cache, folders_by_depth, next_id, db_folders,
                   loads, seed_runs, matches, lineage, last, prev, others>>

\* thread w has created the domain folder (c)
DomainCreated(w, c) ==
    /\ SetMatcher(c.m)
    /\ At(w, "subdomain_search", workers[w].candidate,
          Created(1, "CREATE_NEW", NoFind, c).result, NoResult)

\* match_domain from _create_folder on
DomainCreate(w) ==
    /\ workers[w].pc = "domain_create"
    /\ next_id <= MaxFolders
    /\ DomainCreated(w, _create_folder(Matcher, workers[w].candidate.domain, 1,
                                       NoFolder, TRUE))
    /\ UNCHANGED <<db_folders, loads, seed_runs, matches, lineage, last, prev, others>>

\* thread w has the outcome f of the search under the domain and, when that
\* matched nothing, the outcome of the global probe
SubdomainSearched(w, f, probe) ==
    IF IsFolder(f.folder)
    THEN /\ emb_cache' = f.emb_cache
         /\ At(w, "done", workers[w].candidate, workers[w].domain_result,
               Reused(Matcher, 2, f).result)
    ELSE /\ emb_cache' = probe.emb_cache
         /\ At(w, "subdomain_create", workers[w].candidate,
               workers[w].domain_result, NoResult)

SubdomainSearchUnder(w, domain_folder, f) ==
    SubdomainSearched(w, f,
                      _find_best_match(WithCache(Matcher, f.emb_cache),
                                       <<workers[w].candidate.subdomain>>, 2, None,
                                       subdomain_threshold, TRUE))

\* match_subdomain up to the return of the last _find_best_match
SubdomainSearch(w) ==
    /\ workers[w].pc = "subdomain_search"
    /\ SubdomainSearchUnder(
           w, get_folder(workers[w].domain_result),
           _find_best_match(Matcher,
                            <<get_folder(workers[w].domain_result).label, ">",
                              workers[w].candidate.subdomain>>,
                            2, get_folder(workers[w].domain_result).folder_id,
                            subdomain_threshold, TRUE))
    /\ UNCHANGED <<vectors, folder_cache, folders_by_depth, next_id, db_folders,
                   loads, seed_runs, matches, lineage, last, prev, others>>

\* thread w has created the subdomain folder (c)
SubdomainCreated(w, c) ==
    /\ SetMatcher(c.m)
    /\ At(w, "done", workers[w].candidate, workers[w].domain_result,
          Created(2, "ATTACH_AS_CHILD", NoFind, c).result)

\* match_subdomain from _create_folder on
SubdomainCreate(w) ==
    /\ workers[w].pc = "subdomain_create"
    /\ next_id <= MaxFolders
    /\ SubdomainCreated(w, _create_folder(Matcher, workers[w].candidate.subdomain, 2,
                                          get_folder(workers[w].domain_result), TRUE))
    /\ UNCHANGED <<db_folders, loads, seed_runs, matches, lineage, last, prev, others>>

NextConc ==
    \E w \in Workers :
        \/ DomainSearch(w)
        \/ DomainCreate(w)
        \/ SubdomainSearch(w)
        \/ SubdomainCreate(w)

SpecConc == InitConc /\ [][NextConc]_vars

(***************************************************************************)
(* AutoFolder.classify on a store that holds the seed taxonomy, and the    *)
(* item-folder repository.  The same operations reach the local JSON       *)
(* repository (associations) and the Supabase one (item_folders): which    *)
(* of the two a deployment uses is its configuration.  Every classify may  *)
(* run in a process of its own, so the model of each call may or may not   *)
(* be configurable.                                                        *)
(***************************************************************************)
InitClassify ==
    /\ MatcherIs(SeededStore.m)
    /\ db_folders = StoreFolders(<<>>, SeededStore.created)
    /\ loads = 1
    /\ seed_runs = 1
    /\ matches = 0
    /\ lineage = "seeded"
    /\ last = <<>>
    /\ prev = <<>>
    /\ workers = [w \in Workers |-> Idle]
    /\ calc = <<>>
    /\ NoItems

\* the items that are classified: raw_topic and summary
ItemTexts ==
    { [raw_topic |-> "", summary |-> ""],
      [raw_topic |-> "", summary |-> "a summary"],
      [raw_topic |-> " Calorie Deficit ", summary |-> "a summary"],
      [raw_topic |-> "health", summary |-> "a summary"],
      [raw_topic |-> "keto diet", summary |-> "a summary"],
      [raw_topic |-> "quantum computing", summary |-> "a summary"] }

\* get_folder_for_item of the repository of a backend
get_folder_for_item(backend, item_id) ==
    IF backend = "supabase"
    THEN (IF item_id \in DOMAIN item_folders THEN item_folders[item_id] ELSE None)
    ELSE associations[item_id]

\* associate_item(item_id, folder_id): the dict entry is assigned; the row
\* is upserted under _ensure_uuid(item_id)
AssociateWith(item_id, folder_id) ==
    /\ associations' = [associations EXCEPT ![item_id] = folder_id]
    /\ item_folders' = [item_folders EXCEPT ![_ensure_uuid(item_id)] = folder_id]
    /\ latest' = [latest EXCEPT ![item_id] = folder_id]

\* a classify whose except branch reports the failure without the text of
\* the exception
ClassifyFailsWithoutText(item, g) ==
    /\ output' = <<[item_id |-> item.item_id, final_path |-> <<"Uncategorized", "/", "Error">>,
                    created_folders |-> <<>>, reused_folders |-> <<>>,
                    confidence |-> 0, notes |-> <<"Classification failed">>,
                    raw_topic |-> item.raw_topic,
                    via |-> g.via, step |-> g.step, candidate |-> g.candidate,
                    seed_only |-> DOMAIN folder_cache = DOMAIN SeededStore.m.folder_cache,
                    repository |-> "ok"]>>
    /\ last' = <<>>
    /\ lineage' = "mixed"
    /\ UNCHANGED <<vectors, folder_cache, folders_by_depth, emb_cache, next_id,
                   db_folders, associations, item_folders, latest>>

\* the except branch of classify: the error output for the exception text
ClassifyFails(item, g) ==
    /\ output' = <<[item_id |-> item.item_id, final_path |-> <<"Uncategorized", "/", "Error">>,
                    created_folders |-> <<>>, reused_folders |-> <<>>,
                    confidence |-> 0, notes |-> <<"Classification failed: ", g.raised>>,
                    raw_topic |-> item.raw_topic,
                    via |-> g.via, step |-> g.step, candidate |-> g.candidate,
                    seed_only |-> DOMAIN folder_cache = DOMAIN SeededStore.m.folder_cache,
                    repository |-> "ok"]>>
    /\ last' = <<>>
    /\ lineage' = "mixed"
    /\ UNCHANGED <<vectors, folder_cache, folders_by_depth, emb_cache, next_id,
                   db_folders, associations, item_folders, latest>>

\* AutoFolderOutput.from_hierarchical_match: the fields of the output that
\* come from the match and the candidate (the notes of the levels and the
\* rationale, which hold no failure text, are <<>>)
from_hierarchical_match(item_id, match, taxonomy) ==
    [item_id |-> item_id, final_path |-> match.final_path,
     created_folders |-> [i \in DOMAIN match.created |-> match.created[i].path],
     reused_folders |->
         [i \in DOMAIN get_reused_folders(match.domain_result, match.subdomain_result,
                                          match.leaf_result) |->
             get_reused_folders(match.domain_result, match.subdomain_result,
                                match.leaf_result)[i].path],
     confidence |-> taxonomy.confidence, notes |-> <<>>]

\* an increment that stores a record of the count alone
IncrementReplacesRecord(db, folder_id) ==
    IF folder_id \in DOMAIN db
    THEN [db EXCEPT ![folder_id] =
             [folder_id |-> folder_id, path |-> <<>>, label |-> "", depth |-> 0,
              parent_id |-> None, embedding_id |-> <<>>,
              item_count |-> db[folder_id].item_count + 1, is_seed |-> FALSE]]
    ELSE db

\* LocalJsonFolderRepository.increment_item_count: a folder id that is not
\* stored is ignored
increment_item_count(db, folder_id) ==
    IF folder_id \in DOMAIN db
    THEN [db EXCEPT ![folder_id].item_count = @ + 1]
    ELSE db

\* steps 3 to 5 of classify after the match r of the candidate of g: the
\* output, then, for the folder of the subdomain result, the increment of
\* its item count and the association of the item, then the statistics.
\* repository names the call of step 5 that raises, if any: the calls
\* after it are skipped, the exception is logged, the output is returned
ClassifyReturns(item, g, r, repository) ==
    /\ r.m.next_id <= MaxFolders + 1
    /\ SetMatcher(r.m)
    /\ \E o \in {from_hierarchical_match(item.item_id, r, g.candidate)} :
          output' = <<[item_id |-> o.item_id, final_path |-> o.final_path,
                       created_folders |-> o.created_folders,
                       reused_folders |-> o.reused_folders,
                       confidence |-> o.confidence, notes |-> o.notes,
                       raw_topic |-> item.raw_topic,
                       via |-> g.via, step |-> g.step, candidate |-> g.candidate,
                       seed_only |-> DOMAIN folder_cache = DOMAIN SeededStore.m.folder_cache,
                       repository |-> repository]>>
    /\ last' = <<MatchRecord(r)>>
    /\ lineage' = IF repository = "ok" THEN lineage ELSE "mixed"
    /\ IF IsFolder(get_folder(r.subdomain_result))
          /\ repository # "increment_item_count raises"
       THEN /\ db_folders' = increment_item_count(db_folders,
                                                  get_folder(r.subdomain_result).folder_id)
            /\ IF repository # "associate_item raises"
               THEN AssociateWith(item.item_id, get_folder(r.subdomain_result).folder_id)
               ELSE UNCHANGED <<associations, item_folders, latest>>
       ELSE UNCHANGED <<db_folders, associations, item_folders, latest>>

\* AutoFolder.classify(item): generate, then match unless generate raised,
\* then step 5 with one of the outcomes of the repository; calls counts
\* with matches the calls that are explored
ClassifyWith(calls, outcomes) ==
    /\ matches < calls
    /\ \E item_id \in ItemIds, text \in ItemTexts, up \in {Down({}), Down(CallSites)} :
          \E item \in {[item_id |-> item_id, raw_topic |-> text.raw_topic,
                         summary |-> text.summary]} :
          \E g \in {generate(item, llm) : llm \in LlmOutcomes} :
             IF g.raised # ""
             THEN ClassifyFails(item, g)
             ELSE \E d \in {match_domain(Matcher, g.candidate, up)} :
                  \E sd \in {match_subdomain(d.m, g.candidate, d.result, up)} :
                  \E l \in {match_leaf(sd.m, g.candidate, sd.result, up)} :
                  \E r \in {HierarchicalMatch(g.candidate, d, sd, l)} :
                  \E repository \in outcomes :
                      ClassifyReturns(item, g, r, repository)
    /\ matches' = matches + 1
    /\ prev' = <<>>
    /\ UNCHANGED <<loads, seed_runs, workers, calc>>

\* one classify among the operations of the item repository, step 5 with
\* every outcome
Classify ==
    ClassifyWith(MaxClassify, {"ok", "increment_item_count raises",
                               "associate_item raises", "record_classification raises"})

\* classify calls one after the other, the repository working
Reclassify == ClassifyWith(MaxMatches, {"ok"})

\* item_folders.associate_item(item_id, folder_id)
AssociateItem ==
    /\ \E item_id \in ItemIds, folder_id \in {1, 2} : AssociateWith(item_id, folder_id)
    /\ output' = <<>>
    /\ lineage' = "mixed"
    /\ last' = <<>>
    /\ prev' = <<>>
    /\ UNCHANGED <<vectors, folder_cache, folders_by_depth, emb_cache, next_id,
                   db_folders, loads, seed_runs, matches, workers, calc>>

\* item_folders.move_item(item_id, new_folder_id): the dict entry is changed
\* when there is one; the rows whose item_id equals the argument are updated
MoveItem ==
    /\ \E item_id \in ItemIds, new_folder_id \in {1, 2} :
          /\ associations' = IF associations[item_id] # None
                              THEN [associations EXCEPT ![item_id] = new_folder_id]
                              ELSE associations
          /\ item_folders' = [k \in DOMAIN item_folders |->
                                 IF k = item_id /\ item_folders[k] # None
                                 THEN new_folder_id ELSE item_folders[k]]
          /\ latest' = IF latest[item_id] # None
                        THEN [latest EXCEPT ![item_id] = new_folder_id]
                        ELSE latest
    /\ output' = <<>>
    /\ lineage' = "mixed"
    /\ last' = <<>>
    /\ prev' = <<>>
    /\ UNCHANGED <<vectors, folder_cache, folders_by_depth, emb_cache, next_id,
                   db_folders, loads, seed_runs, matches, workers, calc>>

\* item_folders.remove_item(item_id): the dict entry is deleted; the rows
\* whose item_id equals the argument are deleted
RemoveItem ==
    /\ \E item_id \in ItemIds :
          /\ associations' = [associations EXCEPT ![item_id] = None]
          /\ item_folders' = [k \in DOMAIN item_folders |->
                                 IF k = item_id THEN None ELSE item_folders[k]]
          /\ latest' = [latest EXCEPT ![item_id] = None]
    /\ output' = <<>>
    /\ lineage' = "mixed"
    /\ last' = <<>>
    /\ prev' = <<>>
    /\ UNCHANGED <<vectors, folder_cache, folders_by_depth, emb_cache, next_id,
                   db_folders, loads, seed_runs, matches, workers, calc>>

SpecClassify ==
    InitClassify /\ [][Classify \/ AssociateItem \/ MoveItem \/ RemoveItem]_vars

\* the operations that create folders, on the seeded store: classify calls
\* one after the other, match calls, and initialize_seed() again
SpecReclassify ==
    InitClassify /\ [][Reclassify \/ Match \/ InitializeSeedEntry]_vars

(***************************************************************************)
(* EmbeddingService.cosine_similarity called on two vectors.  The vectors  *)
(* have one to three components and an integer norm; among them are zero   *)
(* vectors, opposite vectors and the empty vector.                         *)
(***************************************************************************)
\* everything but calc is as FolderMatcher.__init__ leaves it
MatcherUnused ==
    /\ MatcherIs(EmptyMatcher)
    /\ db_folders = <<>>
    /\ loads = 0
    /\ seed_runs = 0
    /\ matches = 0
    /\ lineage = "fresh"
    /\ last = <<>>
    /\ prev = <<>>
    /\ workers = [w \in Workers |-> Idle]

InitCosine ==
    /\ MatcherUnused
    /\ \E a, b \in { <<>>, <<0>>, <<5>>, <<0, 0>>, <<3, 4>>, <<4, 3>>, <<-3, 4>>,
                      <<-3, -4>>, <<5, 0>>, <<0, 5>>, <<3, 4, 0>>, <<0, 0, 5>> } :
          calc = <<[op |-> "cosine_similarity", a |-> a, b |-> b, returned |-> FALSE,
                    out |-> 0]>>
    /\ NoItems

\* cosine_similarity(a, b) returns, or raises (out is DimensionMismatch)
CosineCall ==
    /\ ~ calc[1].returned
    /\ calc' = <<[calc[1] EXCEPT !.returned = TRUE,
                                 !.out = cosine_similarity(calc[1].a, calc[1].b)]>>
    /\ UNCHANGED <<vectors, folder_cache, folders_by_depth, emb_cache, next_id,
                   db_folders, loads, seed_runs, matches, lineage, last, prev, workers,
                   associations, item_folders, latest, output>>

SpecCosine == InitCosine /\ [][CosineCall]_vars

(***************************************************************************)
(* InMemoryVectorStore used directly: add_vector with a new id, and search *)
(* with a query, a top_k and a filter (<<>> is no filter).  One stored     *)
(* embedding has another dimension than the queries.                       *)
(***************************************************************************)
\* add_vector(f"folder_{id}", embedding, metadata)
StoreAdd ==
    /\ Len(vectors) < MaxVectors
    /\ \E embedding \in { <<100, 0>>, <<0, 100>>, <<60, 80>>, <<100>> },
          metadata \in
              { FolderMetadata(next_id, <<"Cooking">>, 1, None, FALSE),
                FolderMetadata(next_id, <<"Cooking", "/", "Recipes">>, 2, 1, FALSE),
                FolderMetadata(next_id, <<"Astronomy", "/", "Planets">>, 2, 2, FALSE) } :
          vectors' = add_vector(vectors, EmbeddingIdOf(next_id), embedding, metadata)
    /\ next_id' = next_id + 1
    /\ calc' = <<>>
    /\ UNCHANGED <<folder_cache, folders_by_depth, emb_cache, db_folders, loads,
                   seed_runs, matches, lineage, last, prev, workers,
                   associations, item_folders, latest, output>>

\* search(query_embedding, top_k, filter_metadata)
StoreSearch ==
    /\ \E query \in { <<100, 0>>, <<60, 80>> }, top_k \in {1, 2},
          filter \in { <<>>, SearchFilter(2, None), SearchFilter(2, 1) } :
          calc' = <<[op |-> "search", query |-> query, top_k |-> top_k,
                    filter |-> filter,
                    results |-> VectorSearch(vectors, query, top_k, filter)]>>
    /\ UNCHANGED <<vectors, folder_cache, folders_by_depth, emb_cache, next_id,
                   db_folders, loads, seed_runs, matches, lineage, last, prev, workers,
                   associations, item_folders, latest, output>>

SpecSearch == Init /\ [][StoreAdd \/ StoreSearch]_vars

(***************************************************************************)
(* Properties                                                              *)
(***************************************************************************)
\* no two folders of the cache, and no two entries of the index, have the
\* same path
CachePathsUnique ==
    \A i, j \in DOMAIN folder_cache :
        i # j => folder_cache[i].path # folder_cache[j].path

IndexPathsUnique ==
    \A i, j \in DOMAIN vectors :
        i # j => vectors[i].metadata.path # vectors[j].metadata.path

\* C1: after any sequence of match calls on one matcher whose store was
\* seeded once, no two cached folders and no two folder entries of the
\* index have the same path.
C1_UniquePaths == lineage = "seeded" => CachePathsUnique /\ IndexPathsUnique

\* the last two steps were matches of the same candidate
SameCandidateTwice ==
    /\ last # <<>>
    /\ prev # <<>>
    /\ prev[1].candidate = last[1].candidate

\* C2: the second of two matches of the same candidate in a row has the
\* final path of the first, reuses the domain and the subdomain folder and
\* creates no folder.
C2_Idempotent ==
    SameCandidateTwice =>
        /\ last[1].final_path = prev[1].final_path
        /\ last[1].domain_result.action = "REUSE_EXISTING"
        /\ last[1].subdomain_result.action = "REUSE_EXISTING"
        /\ last[1].created = <<>>

\* two threads have resolved the same domain label
SameDomainLabel(v, w) ==
    /\ v # w
    /\ workers[v].domain_result # NoResult
    /\ workers[w].domain_result # NoResult
    /\ workers[v].candidate.domain = workers[w].candidate.domain

\* two threads have resolved the same subdomain label under one domain folder
SameSubdomainLabel(v, w) ==
    /\ v # w
    /\ workers[v].subdomain_result # NoResult
    /\ workers[w].subdomain_result # NoResult
    /\ workers[v].candidate.subdomain = workers[w].candidate.subdomain
    /\ get_folder(workers[v].domain_result).folder_id
           = get_folder(workers[w].domain_result).folder_id

\* C3: when two concurrent matches resolve the same new label under the
\* same parent, at most one folder with that path is created, and the
\* loser reuses the winner's folder.
C3_OneFolderPerPath ==
    /\ CachePathsUnique
    /\ \A v, w \in Workers :
          /\ SameDomainLabel(v, w) =>
                get_folder(workers[v].domain_result).folder_id
                    = get_folder(workers[w].domain_result).folder_id
          /\ SameSubdomainLabel(v, w) =>
                get_folder(workers[v].subdomain_result).folder_id
                    = get_folder(workers[w].subdomain_result).folder_id

\* C4: when embedding the search text fails at the domain or the subdomain
\* level, no folder is created at that level and the match resolves no
\* path.
C4_EmbeddingFailureAborts ==
    last # <<>> =>
        /\ last[1].finds[1].failed =>
              /\ ~ IsFolder(last[1].domain_result.new_folder)
              /\ last[1].final_path = <<>>
        /\ last[1].finds[2].failed =>
              /\ ~ IsFolder(last[1].subdomain_result.new_folder)
              /\ last[1].final_path = <<>>

\* a result of a search that is at or above the threshold and passes the
\* sanity check
Eligible(f, i, threshold) ==
    /\ f.results[i].score >= threshold
    /\ _sanity_check(f.search_text, f.results[i].path, f.results[i].score)

\* C5: at the domain level a folder whose similarity is at least
\* domain_threshold, exactly domain_threshold included, and that passes the
\* sanity check is matched with REUSE_EXISTING (the first such result is the
\* matched folder); when every similarity is below domain_threshold nothing
\* is matched and the result is CREATE_NEW.
C5_InclusiveThreshold ==
    (last # <<>> /\ ~ last[1].finds[1].failed) =>
        /\ \A i \in DOMAIN last[1].finds[1].results :
              (/\ Eligible(last[1].finds[1], i, domain_threshold)
               /\ \A j \in 1..(i - 1) : ~ Eligible(last[1].finds[1], j, domain_threshold))
              => /\ last[1].domain_result.action = "REUSE_EXISTING"
                 /\ last[1].domain_result.matched_folder.folder_id
                       = last[1].finds[1].results[i].folder_id
                 /\ last[1].domain_result.similarity_score
                       = last[1].finds[1].results[i].score
        /\ (\A i \in DOMAIN last[1].finds[1].results :
               last[1].finds[1].results[i].score < domain_threshold)
              => /\ last[1].domain_result.action = "CREATE_NEW"
                 /\ ~ IsFolder(last[1].domain_result.matched_folder)

\* C5 witness: a domain folder has been matched at exactly domain_threshold
C5_Witness ==
    /\ last # <<>>
    /\ last[1].domain_result.action = "REUSE_EXISTING"
    /\ last[1].domain_result.similarity_score = domain_threshold

\* a result of the search f whose similarity lies in (0.85, 0.95] and whose
\* keyword overlap with the search text is below min_keyword_overlap
Suspicious(f, i) ==
    /\ f.results[i].score > SuspiciousSimilarity
    /\ f.results[i].score <= TrustSimilarity
    /\ OverlapBelowMin(_keyword_overlap(f.search_text, f.results[i].path))

\* C6: at every level, a result whose similarity s satisfies
\* 0.85 < s <= 0.95 and whose keyword overlap is below min_keyword_overlap
\* is rejected by the sanity check and is not the folder returned; a result
\* with s > 0.95 passes the sanity check, and is the folder returned when it
\* is the first result.
C6_SanityCheck ==
    last # <<>> =>
        \A level \in 1..3 :
            \A i \in DOMAIN last[1].finds[level].results :
                /\ Suspicious(last[1].finds[level], i) =>
                      /\ ~ _sanity_check(last[1].finds[level].search_text,
                                         last[1].finds[level].results[i].path,
                                         last[1].finds[level].results[i].score)
                      /\ last[1].finds[level].folder.folder_id
                            # last[1].finds[level].results[i].folder_id
                /\ last[1].finds[level].results[i].score > TrustSimilarity =>
                      /\ _sanity_check(last[1].finds[level].search_text,
                                       last[1].finds[level].results[i].path,
                                       last[1].finds[level].results[i].score)
                      /\ i = 1 => last[1].finds[level].folder.folder_id
                                     = last[1].finds[level].results[1].folder_id

\* C6 witness: a domain search has met a folder at similarity 0.90 with no
\* keyword in common and has created a new domain instead; the match before
\* it had reused "Cooking" for "Cookery", at a similarity above 0.95 with
\* no keyword in common
C6_Witness ==
    /\ last # <<>>
    /\ \E i \in DOMAIN last[1].finds[1].results :
          /\ last[1].finds[1].results[i].score = 9000
          /\ _keyword_overlap(last[1].finds[1].search_text,
                              last[1].finds[1].results[i].path)[1] = 0
    /\ last[1].domain_result.action = "CREATE_NEW"
    /\ prev # <<>>
    /\ prev[1].candidate.domain = "Cookery"
    /\ prev[1].final_path = <<"Cooking", "/", "Recipes">>

\* the folder f was created under parent (NoFolder for none)
PathOf(f, parent) ==
    /\ IF IsFolder(parent)
       THEN /\ f.path = parent.path \o <<"/", f.label>>
            /\ f.parent_id = parent.folder_id
       ELSE /\ f.path = <<f.label>>
            /\ f.parent_id = None
    /\ f.depth = Len(SplitSlash(f.path))

\* the cached parent of a cached folder, NoFolder for none
ParentOf(f) ==
    IF f.parent_id \in DOMAIN folder_cache THEN folder_cache[f.parent_id] ELSE NoFolder

\* C7: every folder created by a match, and every seed folder, has the path
\* of its parent followed by "/" and its label, or its label alone when it
\* has no parent, and its depth is the number of "/"-separated segments of
\* its path.
C7_CreatedPath ==
    /\ last # <<>> =>
          /\ IsFolder(last[1].domain_result.new_folder) =>
                PathOf(last[1].domain_result.new_folder, NoFolder)
          /\ IsFolder(last[1].subdomain_result.new_folder) =>
                PathOf(last[1].subdomain_result.new_folder,
                       get_folder(last[1].domain_result))
          /\ IsFolder(last[1].leaf_result.new_folder) =>
                PathOf(last[1].leaf_result.new_folder,
                       get_folder(last[1].subdomain_result))
    /\ \A id \in DOMAIN folder_cache :
          folder_cache[id].is_seed => PathOf(folder_cache[id], ParentOf(folder_cache[id]))

\* C7 witness: a match has created a domain, a subdomain and a leaf
C7_Witness ==
    /\ last # <<>>
    /\ Len(last[1].created) = 3
    /\ last[1].leaf_result.new_folder.depth = 3

\* matched_folder and new_folder of a MatchResult agree with its action
FoldersAgreeWithAction(r) ==
    /\ IsFolder(r.matched_folder) <=> r.action = "REUSE_EXISTING"
    /\ IsFolder(r.new_folder) <=> r.action \in {"CREATE_NEW", "ATTACH_AS_CHILD"}
    /\ r.action = "SKIP" => ~ IsFolder(r.matched_folder) /\ ~ IsFolder(r.new_folder)
    /\ r.action # "SKIP" => (IsFolder(r.matched_folder) # IsFolder(r.new_folder))

\* C8: in every MatchResult of match_domain, match_subdomain and match_leaf
\* exactly one of matched_folder and new_folder is set unless the action is
\* SKIP, when neither is; matched_folder is set exactly for REUSE_EXISTING,
\* new_folder exactly for CREATE_NEW and ATTACH_AS_CHILD.
C8_ExactlyOneFolder ==
    last # <<>> =>
        /\ FoldersAgreeWithAction(last[1].domain_result)
        /\ FoldersAgreeWithAction(last[1].subdomain_result)
        /\ last[1].leaf_result # NoResult =>
              FoldersAgreeWithAction(last[1].leaf_result)

\* C8 witness: a match has reused a domain, created a subdomain and skipped
\* the leaf
C8_Witness ==
    /\ last # <<>>
    /\ last[1].domain_result.action = "REUSE_EXISTING"
    /\ last[1].subdomain_result.action = "ATTACH_AS_CHILD"
    /\ last[1].leaf_result.action = "SKIP"

\* C9: every cached folder of depth 1 has no parent_id and every cached
\* folder of depth 2 or 3 has a parent_id naming a cached folder of depth
\* one less; in every match the resolved subdomain folder's parent is the
\* resolved domain folder and a resolved leaf folder's parent is the
\* resolved subdomain folder.
C9_ParentChild ==
    /\ \A id \in DOMAIN folder_cache :
          /\ folder_cache[id].depth = 1 => folder_cache[id].parent_id = None
          /\ folder_cache[id].depth \in {2, 3} =>
                /\ folder_cache[id].parent_id \in DOMAIN folder_cache
                /\ folder_cache[folder_cache[id].parent_id].depth
                      = folder_cache[id].depth - 1
    /\ last # <<>> =>
          /\ get_folder(last[1].subdomain_result).parent_id
                = get_folder(last[1].domain_result).folder_id
          /\ IsFolder(get_folder(last[1].leaf_result)) =>
                get_folder(last[1].leaf_result).parent_id
                    = get_folder(last[1].subdomain_result).folder_id

\* the paths of the seed taxonomy
SeedPaths ==
    UNION { {<<SEED_DOMAINS[i].label>>}
            \cup { <<SEED_DOMAINS[i].label, "/", SEED_DOMAINS[i].subdomains[j]>> :
                   j \in DOMAIN SEED_DOMAINS[i].subdomains }
            : i \in DOMAIN SEED_DOMAINS }

\* C10: seed initialization creates the seed folders once: whatever
\* initialization requests follow on the populated store, each seed path is
\* held at most once by the cache and at most once by the vector index.
C10_SeedOnce ==
    \A p \in SeedPaths :
        /\ Cardinality({id \in DOMAIN folder_cache : folder_cache[id].path = p}) <= 1
        /\ Cardinality({i \in DOMAIN vectors : vectors[i].metadata.path = p}) <= 1

\* the last step was a match of a candidate without a leaf whose domain
\* search matched no folder
NewDomainNoLeaf ==
    /\ last # <<>>
    /\ last[1].candidate.leaf_topic = NoLeaf
    /\ ~ IsFolder(last[1].finds[1].folder)

\* C11: when a candidate without a leaf has a domain label that matches no
\* existing folder, match creates exactly two folders, a depth-1 folder with
\* the domain label (CREATE_NEW) and a depth-2 folder with the subdomain
\* label under it (ATTACH_AS_CHILD); the final path is domain/subdomain and
\* the created-folders list holds these two.
C11_NewDomainCreatesTwo ==
    NewDomainNoLeaf =>
        /\ last[1].domain_result.action = "CREATE_NEW"
        /\ last[1].subdomain_result.action = "ATTACH_AS_CHILD"
        /\ Len(last[1].created) = 2
        /\ last[1].created[1] = last[1].domain_result.new_folder
        /\ last[1].created[2] = last[1].subdomain_result.new_folder
        /\ last[1].created[1].depth = 1
        /\ last[1].created[1].label = last[1].candidate.domain
        /\ last[1].created[2].depth = 2
        /\ last[1].created[2].label = last[1].candidate.subdomain
        /\ last[1].created[2].parent_id = last[1].created[1].folder_id
        /\ last[1].final_path
              = <<last[1].candidate.domain, "/", last[1].candidate.subdomain>>
        /\ DOMAIN folder_cache \ last[1].cached_before
              = {last[1].created[1].folder_id, last[1].created[2].folder_id}
        /\ last[1].created[1].folder_id # last[1].created[2].folder_id
        /\ {id \in DOMAIN folder_cache :
                folder_cache[id].parent_id = last[1].created[1].folder_id}
              = {last[1].created[2].folder_id}

\* C11 witness: "Astronomy"/"Planets" without a leaf has been matched; the
\* domain search ran and met no folder at or above the threshold
C11_Witness ==
    /\ NewDomainNoLeaf
    /\ last[1].candidate.domain = "Astronomy"
    /\ ~ last[1].finds[1].failed
    /\ last[1].finds[1].results # <<>>
    /\ Len(last[1].created) = 2

\* the last step was a match of a candidate whose leaf is optional and
\* whose confidence is below leaf_confidence_threshold
LowConfidenceOptionalLeaf ==
    /\ last # <<>>
    /\ last[1].candidate.leaf_topic # NoLeaf
    /\ last[1].candidate.leaf_topic.optional
    /\ last[1].candidate.confidence < leaf_confidence_threshold

\* the cached folders of depth 3 whose parent is the folder f
LeavesUnder(f) ==
    {id \in DOMAIN folder_cache :
        folder_cache[id].depth = 3 /\ folder_cache[id].parent_id = f.folder_id}

\* C12: when the candidate's leaf is optional and the confidence is below
\* leaf_confidence_threshold, the leaf result is SKIP, no depth-3 folder is
\* created and no leaf search is performed, whatever leaves exist under the
\* subdomain.
C12_LowConfidenceSkips ==
    LowConfidenceOptionalLeaf =>
        /\ last[1].leaf_result.action = "SKIP"
        /\ last[1].leaf_result.label_used = last[1].candidate.leaf_topic.label
        /\ ~ IsFolder(last[1].leaf_result.matched_folder)
        /\ ~ IsFolder(last[1].leaf_result.new_folder)
        /\ \A id \in DOMAIN folder_cache \ last[1].cached_before :
              folder_cache[id].depth # 3
        /\ \A i \in DOMAIN last[1].created : last[1].created[i].depth # 3
        /\ last[1].finds[3].search_text = <<>>
        /\ last[1].finds[3].results = <<>>
        /\ ~ last[1].finds[3].failed

\* C12 witness: "Mars" was skipped at confidence 0.60 although the resolved
\* subdomain holds a leaf "Mars"
C12_Witness ==
    /\ LowConfidenceOptionalLeaf
    /\ last[1].leaf_result.action = "SKIP"
    /\ \E id \in LeavesUnder(get_folder(last[1].subdomain_result)) :
          folder_cache[id].label = last[1].candidate.leaf_topic.label

\* the last step was a match of a candidate whose leaf is optional
OptionalLeaf ==
    /\ last # <<>>
    /\ last[1].candidate.leaf_topic # NoLeaf
    /\ last[1].candidate.leaf_topic.optional

\* the folder leaf existed before the last match, at depth 3 with the path
\* of the folder parent followed by "/" and its label
ExistingLeafUnder(leaf, parent) ==
    /\ leaf.folder_id \in last[1].cached_before
    /\ leaf.depth = 3
    /\ leaf.path = parent.path \o <<"/", leaf.label>>

OptionalLeafSearchedAndSkipped ==
    /\ OptionalLeaf
    /\ last[1].candidate.confidence >= leaf_confidence_threshold
    /\ last[1].finds[3].search_text # <<>>
    /\ last[1].leaf_result.action = "SKIP"

\* C17: when embedding the leaf search text fails, the leaf result is SKIP,
\* no depth-3 folder is created, and the match still resolves the path of
\* the domain and the subdomain.
C17_LeafFailureSkips ==
    (last # <<>> /\ last[1].finds[3].failed) =>
        /\ last[1].leaf_result.action = "SKIP"
        /\ ~ IsFolder(last[1].leaf_result.new_folder)
        /\ \A id \in DOMAIN folder_cache \ last[1].cached_before :
              folder_cache[id].depth # 3
        /\ last[1].final_path
              = <<get_folder(last[1].domain_result).label, "/",
                  get_folder(last[1].subdomain_result).label>>

\* every component of the vector a is zero
IsZeroVector(a) == \A i \in DOMAIN a : a[i] = 0

\* cosine_similarity has returned or raised
CosineReturned ==
    /\ calc # <<>>
    /\ calc[1].op = "cosine_similarity"
    /\ calc[1].returned

\* C20: cosine_similarity fails with a dimension mismatch when the two
\* vectors differ in length; for vectors of one length it returns 0.0 when
\* either is a zero vector, 1.0 for a non-zero vector and itself, 0.0 when
\* the cosine is negative, and always a value within [0, 1].
C20_CosineRange ==
    CosineReturned =>
        /\ Len(calc[1].a) # Len(calc[1].b) <=> calc[1].out = DimensionMismatch
        /\ Len(calc[1].a) = Len(calc[1].b) =>
              /\ calc[1].out >= 0
              /\ calc[1].out <= Scale
              /\ (IsZeroVector(calc[1].a) \/ IsZeroVector(calc[1].b)) => calc[1].out = 0
              /\ (calc[1].a = calc[1].b /\ ~ IsZeroVector(calc[1].a)) => calc[1].out = Scale
              /\ Dot(calc[1].a, calc[1].b) < 0 => calc[1].out = 0

\* C20 witness: the cosine of two opposite vectors has come out as 0.0
C20_Witness ==
    /\ CosineReturned
    /\ calc[1].a = <<3, 4>>
    /\ calc[1].b = <<-3, -4>>
    /\ calc[1].out = 0

\* the position in the store of the entry with the id vector_id
PositionOf(vector_id) == CHOOSE i \in DOMAIN vectors : vectors[i].vector_id = vector_id

\* the entry at position i passes the filter of the recorded search and has
\* the dimension of its query
Searched(i) ==
    /\ MatchesFilter(vectors[i].metadata, calc[1].filter)
    /\ cosine_similarity(calc[1].query, vectors[i].embedding) # DimensionMismatch

\* C18: search returns only entries whose metadata equals the filter on
\* every filter key, each once with its cosine score, at most top_k of
\* them, ordered by score descending with equal scores in insertion order;
\* they are the top_k best of the filtered entries: an entry that passes the
\* filter and is not returned scores no higher than any returned one, and
\* is left out only when top_k entries are returned.
C18_SearchFiltersThenRanks ==
    (calc # <<>> /\ calc[1].op = "search") =>
        /\ Len(calc[1].results) <= calc[1].top_k
        /\ \A r \in DOMAIN calc[1].results :
              /\ \E i \in DOMAIN vectors : vectors[i].vector_id = calc[1].results[r].id
              /\ Searched(PositionOf(calc[1].results[r].id))
              /\ calc[1].results[r].score
                    = cosine_similarity(calc[1].query,
                                        vectors[PositionOf(calc[1].results[r].id)].embedding)
        /\ \A r, t \in DOMAIN calc[1].results :
              r < t =>
                 /\ calc[1].results[r].score >= calc[1].results[t].score
                 /\ calc[1].results[r].score = calc[1].results[t].score =>
                       PositionOf(calc[1].results[r].id) < PositionOf(calc[1].results[t].id)
        /\ \A i \in DOMAIN vectors :
              (/\ Searched(i)
               /\ \A r \in DOMAIN calc[1].results :
                      calc[1].results[r].id # vectors[i].vector_id)
              => /\ Len(calc[1].results) = calc[1].top_k
                 /\ \A r \in DOMAIN calc[1].results :
                       calc[1].results[r].score
                          >= cosine_similarity(calc[1].query, vectors[i].embedding)

\* C18 witness: a filtered search has returned two entries of equal score
\* while an entry that fails the filter scores higher than both
C18_Witness ==
    /\ calc # <<>>
    /\ calc[1].op = "search"
    /\ Len(calc[1].results) = 2
    /\ calc[1].results[1].score = calc[1].results[2].score
    /\ \E i \in DOMAIN vectors :
          /\ ~ MatchesFilter(vectors[i].metadata, calc[1].filter)
          /\ cosine_similarity(calc[1].query, vectors[i].embedding)
                > calc[1].results[1].score

\* the classify that was the last step had a raw topic that, lowercased and
\* trimmed, is a key of the alias map
AliasKeyClassified ==
    /\ output # <<>>
    /\ Strip(Lower(output[1].raw_topic)) \in DOMAIN ALIAS_MAP

\* C14: for a raw topic that, lowercased and trimmed, is a key of the alias
\* map, generate returns without using the model a candidate of confidence
\* 0.95 with the domain and the subdomain of the canonical path of the key,
\* and on a store that holds the seed folders only the classify creates no
\* folder
C14_AliasShortcut ==
    AliasKeyClassified =>
        LET path == SplitSlash(ALIAS_MAP[Strip(Lower(output[1].raw_topic))])
        IN  /\ output[1].via = "alias"
            /\ output[1].step = "none"
            /\ output[1].candidate.confidence = 9500
            /\ Len(path) >= 2
            /\ output[1].candidate.domain = SegmentLabel(path[1])
            /\ output[1].candidate.subdomain = SegmentLabel(path[2])
            /\ output[1].seed_only => output[1].created_folders = <<>>

\* the classify that was the last step reached the model and the step
\* failed: _configure raised, generate_content raised, or the response
\* could not be parsed
LlmStepFailed ==
    /\ output # <<>>
    /\ output[1].step \in {"configure failed", "call failed", "parse failed"}

\* C15: when the step with the model fails, generate returns the fallback
\* candidate (confidence 0.5, a domain of the seed list, Personal/Ideas
\* when no alias is in the text) and the classify does not end with the
\* error output
C15_LlmFailureFallsBack ==
    LlmStepFailed =>
        /\ output[1].via = "fallback"
        /\ output[1].candidate.confidence = 5000
        /\ output[1].candidate.domain
               \in {SEED_DOMAINS[i].label : i \in DOMAIN SEED_DOMAINS} \cup {"Personal"}
        /\ output[1].raw_topic = "quantum computing" =>
               /\ output[1].candidate.domain = "Personal"
               /\ output[1].candidate.subdomain = "Ideas"
        /\ output[1].final_path # <<"Uncategorized", "/", "Error">>
        /\ output[1].notes = <<>>

\* the classify that was the last step caught an exception
ClassifyCaught ==
    /\ output # <<>>
    /\ output[1].via = "raise"

\* C16: a classify in which an exception is raised returns the output
\* with final_path Uncategorized/Error, confidence 0.0, no created and no
\* reused folder and a note that holds the text of the exception; it
\* stores no association for the item
C16_ErrorOutput ==
    ClassifyCaught =>
        /\ output[1].final_path = <<"Uncategorized", "/", "Error">>
        /\ output[1].confidence = 0
        /\ output[1].created_folders = <<>>
        /\ output[1].reused_folders = <<>>
        /\ Len(output[1].notes) = 2
        /\ output[1].notes[2] \in {"google-generativeai package not installed",
                                   "GEMINI_API_KEY not set in environment"}
        /\ last = <<>>

\* C16 witness: a classify of "quantum computing" without an API key has
\* returned the error output with the text of the ValueError
C16_Witness ==
    /\ ClassifyCaught
    /\ output[1].raw_topic = "quantum computing"
    /\ output[1].final_path = <<"Uncategorized", "/", "Error">>
    /\ output[1].notes = <<"Classification failed: ", "GEMINI_API_KEY not set in environment">>

\* C19: for the repository of either backend, get_folder_for_item of every
\* item id is the folder of the most recent write for the item (None when
\* there was none or the item was removed)
C19_LatestWriteWins ==
    \A backend \in {"memory", "supabase"}, item_id \in ItemIds :
        get_folder_for_item(backend, item_id) = latest[item_id]

\* the threshold of a level
LevelThreshold(level) ==
    CASE level = 1 -> domain_threshold
      [] level = 2 -> subdomain_threshold
      [] level = 3 -> leaf_threshold

\* the MatchResult of a level of the last match
LevelResult(level) ==
    CASE level = 1 -> last[1].domain_result
      [] level = 2 -> last[1].subdomain_result
      [] level = 3 -> last[1].leaf_result

\* C21: at every level whose search ran, the results are walked by
\* descending score; the folder returned is the one of a result at or
\* above the threshold that passes the sanity check, no result that
\* qualifies has a higher score, and the level reuses that folder; when no
\* result qualifies the search returns no folder
C21_BestQualifying ==
    last # <<>> =>
        \A level \in 1..3 :
            LET f == last[1].finds[level]
                qualifying == {i \in DOMAIN f.results :
                                  Eligible(f, i, LevelThreshold(level))}
            IN  ~ f.failed =>
                   /\ \A i, j \in DOMAIN f.results :
                          i < j => f.results[i].score >= f.results[j].score
                   /\ qualifying = {} => ~ IsFolder(f.folder)
                   /\ qualifying # {} =>
                          /\ IsFolder(f.folder)
                          /\ \E i \in qualifying :
                                /\ f.folder.folder_id = f.results[i].folder_id
                                /\ f.score = f.results[i].score
                                /\ \A j \in qualifying :
                                      f.results[j].score <= f.results[i].score
                                /\ \A j \in qualifying : i <= j
                          /\ LevelResult(level).action = "REUSE_EXISTING"
                          /\ LevelResult(level).matched_folder = f.folder

\* C21 witness: a search has returned the folder of a result that comes
\* after a result at or above the threshold that the sanity check rejected
C21_Witness ==
    /\ last # <<>>
    /\ \E level \in 1..3 :
          \E i, k \in DOMAIN last[1].finds[level].results :
              /\ i < k
              /\ last[1].finds[level].results[i].score >= LevelThreshold(level)
              /\ ~ _sanity_check(last[1].finds[level].search_text,
                                 last[1].finds[level].results[i].path,
                                 last[1].finds[level].results[i].score)
              /\ Eligible(last[1].finds[level], k, LevelThreshold(level))
              /\ last[1].finds[level].folder.folder_id
                    = last[1].finds[level].results[k].folder_id

\* the level of the last match created a folder whose embedding failed
CreatedUnembedded(level) ==
    /\ last # <<>>
    /\ ~ last[1].embedded[level]

\* C22: a folder whose embedding fails in _create_folder is created all
\* the same: the level's result holds it as new_folder with no embedding
\* and no embedding id, it is in the cache under its id and in the list
\* of its depth, it is among the created folders of the match, and the
\* index has no entry for it
C22_CreatedWithoutEmbedding ==
    \A level \in 1..3 :
        CreatedUnembedded(level) =>
            LET folder == LevelResult(level).new_folder
            IN  /\ IsFolder(folder)
                /\ LevelResult(level).action \in {"CREATE_NEW", "ATTACH_AS_CHILD"}
                /\ folder.depth = level
                /\ folder.embedding = NoEmbedding
                /\ folder.embedding_id = <<>>
                /\ folder.folder_id \in DOMAIN folder_cache
                /\ folder_cache[folder.folder_id] = folder
                /\ Cardinality({i \in DOMAIN folders_by_depth[level] :
                                   folders_by_depth[level][i] = folder}) = 1
                /\ \E i \in DOMAIN last[1].created : last[1].created[i] = folder
                /\ \A i \in DOMAIN vectors :
                      vectors[i].metadata.folder_id # folder.folder_id

\* C22 witness: a match has created the subdomain Astronomy/Planets while
\* the backend was down for the creation, and the folder is cached
C22_Witness ==
    /\ CreatedUnembedded(2)
    /\ last[1].subdomain_result.new_folder.path = <<"Astronomy", "/", "Planets">>
    /\ last[1].subdomain_result.new_folder.folder_id \in DOMAIN folder_cache

\* the classify that was the last step returned after a call of its step 5
\* had raised
RepositoryFailed ==
    /\ output # <<>>
    /\ output[1].repository # "ok"

\* C23: when the increment of the item count, the association of the item
\* or the recording of the statistics raises during classify, the output
\* is returned with the final path and the created and reused folders of
\* the match, and it is flagged: it differs from the output that
\* from_hierarchical_match built before the repository was called
C23_RepositoryFailureFlagged ==
    RepositoryFailed =>
        /\ last # <<>>
        /\ output[1].final_path = last[1].final_path
        /\ output[1].final_path # <<"Uncategorized", "/", "Error">>
        /\ output[1].created_folders
              = [i \in DOMAIN last[1].created |-> last[1].created[i].path]
        /\ [item_id |-> output[1].item_id, final_path |-> output[1].final_path,
            created_folders |-> output[1].created_folders,
            reused_folders |-> output[1].reused_folders,
            confidence |-> output[1].confidence, notes |-> output[1].notes]
              # from_hierarchical_match(output[1].item_id, last[1], output[1].candidate)

\* a step keeps every folder: the cached folders with their path, label,
\* depth and parent, the index entries as they are, the per-depth lists as
\* prefixes of the new ones, the repository records but for an item count
\* that may be one higher
FolderSetGrows ==
    /\ \A id \in DOMAIN folder_cache :
          /\ id \in DOMAIN folder_cache'
          /\ folder_cache'[id].path = folder_cache[id].path
          /\ folder_cache'[id].label = folder_cache[id].label
          /\ folder_cache'[id].depth = folder_cache[id].depth
          /\ folder_cache'[id].parent_id = folder_cache[id].parent_id
    /\ \A i \in DOMAIN vectors :
          /\ i \in DOMAIN vectors'
          /\ vectors'[i] = vectors[i]
    /\ \A depth \in 1..3 :
          /\ Len(folders_by_depth[depth]) <= Len(folders_by_depth'[depth])
          /\ \A i \in DOMAIN folders_by_depth[depth] :
                folders_by_depth'[depth][i] = folders_by_depth[depth][i]
    /\ \A id \in DOMAIN db_folders :
          /\ id \in DOMAIN db_folders'
          /\ db_folders'[id]
                = [db_folders[id] EXCEPT !.item_count = db_folders'[id].item_count]
          /\ db_folders'[id].item_count
                \in {db_folders[id].item_count, db_folders[id].item_count + 1}

DeepestResolved ==
    IF /\ last[1].leaf_result # NoResult
       /\ last[1].leaf_result.action # "SKIP"
       /\ IsFolder(get_folder(last[1].leaf_result))
    THEN get_folder(last[1].leaf_result)
    ELSE IF IsFolder(get_folder(last[1].subdomain_result))
    THEN get_folder(last[1].subdomain_result)
    ELSE get_folder(last[1].domain_result)

\* C25: the final path of a match is the path of the deepest folder that
\* the match resolved
C25_FinalPathIsDeepestPath ==
    last # <<>> =>
        /\ IsFolder(DeepestResolved)
        /\ last[1].final_path = DeepestResolved.path

\* C25 witness: a match has resolved the leaf folder of Astronomy/Planets/Mars
\* and its final path is the path of that folder
C25_Witness ==
    /\ last # <<>>
    /\ last[1].leaf_result # NoResult
    /\ last[1].leaf_result.action \in {"REUSE_EXISTING", "ATTACH_AS_CHILD"}
    /\ DeepestResolved.depth = 3
    /\ last[1].final_path = <<"Astronomy", "/", "Planets", "/", "Mars">>

\* the last two steps were matches of the same candidate with a leaf that
\* is not optional, and the first of them ended at a depth-3 folder
LeafMatchedTwice ==
    /\ SameCandidateTwice
    /\ last[1].candidate.leaf_topic # NoLeaf
    /\ ~ last[1].candidate.leaf_topic.optional
    /\ Len(SplitSlash(prev[1].final_path)) = 3

\* C26: when a match has ended at the depth-3 folder of a leaf that is not
\* optional, the next match of the same candidate reuses that folder for
\* the leaf, and there is one folder with its path
C26_LeafIdempotent ==
    LeafMatchedTwice =>
        /\ last[1].leaf_result # NoResult
        /\ last[1].leaf_result.action = "REUSE_EXISTING"
        /\ last[1].leaf_result.matched_folder.path = prev[1].final_path
        /\ Cardinality({id \in DOMAIN folder_cache :
                           folder_cache[id].path = prev[1].final_path}) = 1

\* C27: after classify calls that returned with the repository updated,
\* with no other operation on the item repository, the item count that
\* the repository stores for a folder is the number of items whose
\* association points at the folder
C27_ItemCountIsAssociations ==
    lineage = "seeded" =>
        \A id \in DOMAIN db_folders :
            db_folders[id].item_count
                = Cardinality({item_id \in ItemIds : associations[item_id] = id})

\* the classify that was the last step returned the output of a match and
\* no call of the repository raised
ClassifiedAndStored ==
    /\ output # <<>>
    /\ output[1].via # "raise"
    /\ output[1].repository = "ok"

\* C28: after a classify that succeeded, the item is associated with the
\* folder whose path is the final path of the output, and an item count
\* that was incremented is the one of that folder
C28_AssociatedWithFinalFolder ==
    ClassifiedAndStored =>
        /\ associations[output[1].item_id] \in DOMAIN folder_cache
        /\ folder_cache[associations[output[1].item_id]].path = output[1].final_path
        /\ \A id \in DOMAIN db_folders :
              db_folders[id].item_count > 0 => db_folders[id].path = output[1].final_path

\* C29: after a classify that succeeded with no failure of the repository,
\* the folder repository holds a folder for every path of created_folders
C29_CreatedFoldersStored ==
    ClassifiedAndStored =>
        \A i \in DOMAIN output[1].created_folders :
            \E id \in DOMAIN db_folders :
                db_folders[id].path = output[1].created_folders[i]

\* C30: every cached folder of depth 1 to 3 is exactly once in the list of
\* its depth and in no other list, and every entry of a per-depth list is
\* the cached folder with its id
C30_IndexesConsistent ==
    /\ \A id \in DOMAIN folder_cache :
          folder_cache[id].depth \in 1..3 =>
              \A depth \in 1..3 :
                  Cardinality({i \in DOMAIN folders_by_depth[depth] :
                                  folders_by_depth[depth][i].folder_id = id})
                      = IF depth = folder_cache[id].depth THEN 1 ELSE 0
    /\ \A depth \in 1..3 :
          \A i \in DOMAIN folders_by_depth[depth] :
              /\ folders_by_depth[depth][i].folder_id \in DOMAIN folder_cache
              /\ folder_cache[folders_by_depth[depth][i].folder_id]
                    = folders_by_depth[depth][i]

====
